---------------------------- MODULE Spec2Model ----------------------------
(***************************************************************************)
(* Multiplayer room/game state machine of doodlemania.                     *)
(*                                                                         *)
(* One shared room record held by the backend (rooms row + players rows),  *)
(* and, per connected client, the React state of MultiplayerApp            *)
(* (src/src/App.multiplayer.tsx), LobbyScreen (src/unnamed/part_000) and   *)
(* MultiplayerGameScreen (src/src/screens/MultiplayerGameScreen.tsx).      *)
(* The useMultiplayer hook is imported by App.multiplayer.tsx but its      *)
(* source is not part of src/; its operations are written from spec.md     *)
(* (sections 3, 4.2, 4.3, 4.4) and marked as such.                         *)
(***************************************************************************)
EXTENDS Integers, Sequences, FiniteSets, TLC

(***************************************************************************)
(* Bounds of the model                                                     *)
(***************************************************************************)
NumClients == 3        \* connected devices; player id = client id
MaxRound == 1          \* no round-end is submitted from a snapshot at this round
MaxInbox == 2          \* undelivered notifications per client of a playing room
MaxLobbyInbox == 1     \* undelivered notifications per client before the game starts
MaxNow == 1000         \* the clock stops here (milliseconds)
MaxMsgs == 1           \* chat messages broadcast in one run
MaxElapsed == 70       \* seconds elapsed since the round's start, at most
TimerSeconds == 2      \* room.settings.timer_seconds chosen at creation
MaxPoints == 3          \* places touched in one gesture
MaxStrokes == 2         \* completed strokes on one canvas
MaxCalls == 3           \* calls of endRound by a countdown, while writes may fail
MaxRolePoints == 2      \* places touched in one gesture while the drawer may change
MaxTimeOption == 60     \* the longest time limit picked in the settings of a local game
MaxLocalRound == 4      \* the round number of a local game, at most

ClockStep == 1000      \* the clock advances in steps of this many milliseconds

Clients == 1..NumClients

Max(a, b) == IF a >= b THEN a ELSE b

(***************************************************************************)
(* Text: a string is a sequence of one-character strings.                  *)
(***************************************************************************)
Lower(ch) ==
  CASE ch = "A" -> "a" [] ch = "C" -> "c" [] ch = "E" -> "e" [] ch = "S" -> "s"
    [] ch = "T" -> "t" [] ch = "U" -> "u" [] ch = "N" -> "n" [] ch = "L" -> "l"
    [] ch = "P" -> "p" [] ch = "H" -> "h"
    [] OTHER -> ch

IsSpace(ch) == ch = " "

\* String.prototype.toLowerCase
toLowerCase(s) == [i \in 1..Len(s) |-> Lower(s[i])]

\* String.prototype.trim: drop leading and trailing white space
RECURSIVE TrimLeft(_)
TrimLeft(s) == IF s # <<>> /\ IsSpace(Head(s)) THEN TrimLeft(Tail(s)) ELSE s

RECURSIVE TrimRight(_)
TrimRight(s) ==
  IF s # <<>> /\ IsSpace(s[Len(s)]) THEN TrimRight(SubSeq(s, 1, Len(s) - 1)) ELSE s

trim(s) == TrimRight(TrimLeft(s))

\* the word pool of the multiplayer game (an external collaborator)
WordPool == { <<"c", "a", "t">> }
NoWord == <<>>

\* what a player may type into the chat box
ChatInputs == { <<" ", "C", "a", "t", " ">>, <<"c", "a", "t", "s">>, <<" ">> }

(***************************************************************************)
(* Rows of the backend (spec.md section 3)                                 *)
(***************************************************************************)
NoRoom ==
  [exists |-> FALSE, status |-> "none", timer_seconds |-> 0, allow_tag_team |-> FALSE,
   current_round |-> 0, current_word |-> NoWord, drawing_team |-> 0,
   round_start_time |-> -1]

NoPlayer ==
  [present |-> FALSE, team |-> 0, is_host |-> FALSE, is_ready |-> FALSE,
   is_drawing |-> FALSE, score |-> 0]

NoPlayers == [p \in Clients |-> NoPlayer]

(***************************************************************************)
(* The canvas of the game screen and of the local game                     *)
(***************************************************************************)
\* MultiplayerGameScreen: the first colors and the brush sizes of the tools
COLORS == <<"#000000", "#FF0000", "#00AA00", "#0000FF">>
BRUSH_SIZES == <<4, 8, 12, 20>>

\* model bound: the colors and sizes a player picks, the places a finger touches
PickColors == {COLORS[1], COLORS[2]}
PickSizes == {BRUSH_SIZES[2], BRUSH_SIZES[3]}
TouchPoints == {<<1, 2>>, <<3, 1>>}

\* currentPath = null
NoPath == [id |-> -1, points |-> <<>>, color |-> "", brushSize |-> 0]

\* x, y of an event that carries none
NoCoord == -1

\* touched: the places touched since the last touch start, events: the type and
\* coordinates of the events the touch handlers handed to onSendDrawing since then,
\* color and brushSize: the selection when the finger came down
NoGesture == [touched |-> <<>>, events |-> <<>>, color |-> "", brushSize |-> 0]

\* A receiver's strokes: open[p] is the stroke buffer open for sender p, closed the
\* closed strokes in the order they were closed, each with its sender
NoDrawings == [open |-> [p \in 1..NumClients |-> NoPath], closed |-> <<>>]

\* The state of one MultiplayerGameScreen: localPaths, currentPath, selectedColor and
\* brushSize; touching: the canvas is the touch responder; op: the last handler that
\* ran, emitted: the events it handed to onSendDrawing; gesture: the last gesture
NoCanvas ==
  [localPaths |-> <<>>, currentPath |-> NoPath, selectedColor |-> COLORS[1],
   brushSize |-> BRUSH_SIZES[2], touching |-> FALSE, op |-> "none", emitted |-> <<>>,
   gesture |-> NoGesture]

\* LocalGameApp while a round is drawn: paths, currentPath ('' is <<>>), selectedColor
\* and brushSize; a path string is the sequence of its M and L commands
LocalColor == "#000000"
LocalBrushSize == 4

\* a JavaScript value of the scores array: a number, NaN, or the hole of a sparse array
Num(n) == [kind |-> "number", n |-> n]
NaN == [kind |-> "NaN", n |-> 0]
Undefined == [kind |-> "undefined", n |-> 0]

\* Array(count).fill(0)
ArrayFill0(count) == [i \in 1..count |-> Num(0)]

\* the state of LocalGameApp at construction (gameState "none": not mounted). scores,
\* currentTeam, timeLeft, showWord, settings and roundNumber are the component's
\* state; timerRef and wordTimerRef the refs (0 is null); intervals and timeouts
\* the timers of the component that are pending
InitialTimeLeft == 60
InitialTimeLimit == 60
InitialTeamCount == 2

NoLocalGame ==
  [gameState |-> "none", paths |-> <<>>, currentPath |-> <<>>,
   selectedColor |-> LocalColor, brushSize |-> LocalBrushSize, touching |-> FALSE,
   op |-> "none",
   currentWord |-> <<>>, scores |-> <<Num(0), Num(0)>>, currentTeam |-> 0,
   timeLeft |-> InitialTimeLeft, showWord |-> FALSE,
   settings |-> [timeLimit |-> InitialTimeLimit, teamCount |-> InitialTeamCount],
   roundNumber |-> 1,
   timerRef |-> 0, wordTimerRef |-> 0, intervals |-> {}, timeouts |-> {}]

VARIABLES
  now,            \* Date.now(), milliseconds
  srvRoom,        \* the rooms row of the one room code of the model
  srvPlayers,     \* the players rows of that room, by player id
  room,           \* room[c]: the store's room of client c (NoRoom = null)
  players,        \* players[c]: the store's player list of client c
  inbox,          \* inbox[c]: notifications and broadcasts not yet delivered to c
  messages,       \* messages[c]: the chat messages client c holds
  error,          \* error[c]: the store's latest-error slot
  screen,         \* screen[c]: MultiplayerApp's screen state
  timeRemaining,  \* timeRemaining[c]: MultiplayerApp's countdown state
  timerRef,       \* timerRef[c]: the interval handle held in timerRef.current, 0 = null
  intervals,      \* intervals[c]: the interval handles of c that are scheduled
  mounted,        \* mounted[c]: MultiplayerApp of c is mounted
  startPending,   \* startPending[c]: the start button's press animation is running
  sent,           \* number of chat messages broadcast so far
  hist,           \* history of the run, read by the properties only
  canvas,         \* canvas[c]: the state of MultiplayerGameScreen on device c
  localGame,      \* localGame[c]: the state of LocalGameApp on device c
  configured,     \* configured[c]: isSupabaseConfigured() on device c
  drawings        \* the strokes of a receiver that got every drawing event, in order

vars == <<now, srvRoom, srvPlayers, room, players, inbox, messages, error, screen,
          timeRemaining, timerRef, intervals, mounted, startPending, sent, hist,
          canvas, localGame, configured, drawings>>

\* the drawing state, which the handlers of the other screens do not touch
drawVars == <<canvas, localGame, drawings>>


(***************************************************************************)
(* Values derived on every render                                          *)
(***************************************************************************)
\* LobbyScreen: players.filter(p => p.team === t)
teamPlayers(ps, t) == {p \in Clients : ps[p].present /\ ps[p].team = t}

\* LobbyScreen: players.length >= 2 && players.every(p => p.is_ready)
allReady(ps) ==
  /\ Cardinality({p \in Clients : ps[p].present}) >= 2
  /\ \A p \in Clients : ps[p].present => ps[p].is_ready

\* canStart without the test that team 2 has a member
canStart_NoTeam2(ps, me) ==
  /\ ps[me].present
  /\ ps[me].is_host
  /\ allReady(ps)
  /\ Cardinality(teamPlayers(ps, 1)) >= 1

\* LobbyScreen: currentPlayer?.is_host && allReady && team1 >= 1 && team2 >= 1
canStart(ps, me) ==
  /\ ps[me].present
  /\ ps[me].is_host
  /\ allReady(ps)
  /\ Cardinality(teamPlayers(ps, 1)) >= 1
  /\ Cardinality(teamPlayers(ps, 2)) >= 1

\* isGuessingTeam without the comparison with the drawing team
isGuessingTeam_AnyTeam(r, ps, me) ==
  /\ ps[me].present
  /\ ps[me].team # 0

\* MultiplayerGameScreen: myTeam && myTeam !== drawingTeam
isGuessingTeam(r, ps, me) ==
  /\ ps[me].present
  /\ ps[me].team # 0
  /\ ps[me].team # r.drawing_team

\* MultiplayerGameScreen: players with the current player's team, other than them
teammates(ps, me) ==
  {p \in Clients : ps[p].present /\ ps[p].team = ps[me].team /\ p # me}

\* MultiplayerGameScreen header: the sum of the scores of a team's players
RECURSIVE SumScores(_, _)
SumScores(ps, S) ==
  IF S = {} THEN 0
  ELSE LET p == CHOOSE q \in S : TRUE IN ps[p].score + SumScores(ps, S \ {p})

teamScore(ps, t) == SumScores(ps, teamPlayers(ps, t))

(***************************************************************************)
(* MultiplayerApp: the timer effect                                        *)
(***************************************************************************)
\* Remaining without the clamp Math.max(0, ...)
Remaining_NoClamp(r, t) ==
  IF r.round_start_time # -1
  THEN r.timer_seconds - ((t - r.round_start_time) \div 1000)
  ELSE r.timer_seconds

\* the remaining time computed when the effect runs in a playing room
Remaining(r, t) ==
  IF r.round_start_time # -1
  THEN LET startTime == r.round_start_time
           elapsed == (t - startTime) \div 1000
       IN Max(0, r.timer_seconds - elapsed)
  ELSE r.timer_seconds

\* the effect's dependency list (endRound is a stable callback)
TimerDeps(r, ps, c) ==
  <<r.status, r.round_start_time, r.current_round,
    IF ps[c].present THEN (IF ps[c].is_host THEN "true" ELSE "false") ELSE "undefined">>

\* setInterval returns a handle that is not in use
NewHandle(ivs) ==
  CHOOSE n \in 1..(Cardinality(ivs) + 1) : n \notin ivs /\ \A m \in 1..(n - 1) : m \in ivs

\* if (timerRef.current) { clearInterval(timerRef.current); timerRef.current = null }
ClearTimer(tm) ==
  IF tm.ref # 0 THEN [tm EXCEPT !.ref = 0, !.ivs = tm.ivs \ {tm.ref}] ELSE tm

\* a cleanup that leaves the interval scheduled
TimerCleanup_Keep(tm) == tm

\* the cleanup the playing branch of the effect returns
TimerCleanup(tm) == ClearTimer(tm)

\* one run of the effect after a render in which its dependencies changed:
\* the previous run's cleanup, then the body. tm = [tr, ref, ivs]
TimerEffect(oldDeps, newDeps, r, tm, t) ==
  IF oldDeps = newDeps THEN tm
  ELSE LET cleaned == IF oldDeps[1] = "playing" THEN TimerCleanup(tm) ELSE tm
       IN IF r.status # "playing" THEN ClearTimer(cleaned)
          ELSE LET h == NewHandle(cleaned.ivs)
               IN [tr |-> Remaining(r, t), ref |-> h, ivs |-> cleaned.ivs \cup {h}]

(***************************************************************************)
(* MultiplayerApp: the auto-navigate effect and renderScreen's guards      *)
(***************************************************************************)
\* the screen the effect asks transitionTo for (s: none)
AutoNavigate(s, r) ==
  LET s1 == IF r.status = "playing" /\ s = "lobby" THEN "game" ELSE s
  IN IF ~r.exists /\ s1 \notin {"home", "create", "join"} THEN "home" ELSE s1

\* case 'lobby' / case 'game': if (!room || !currentPlayer) transitionTo('home')
renderScreen(s, r, ps, c) ==
  IF s \in {"lobby", "game"} /\ (~r.exists \/ ~ps[c].present) THEN "home" ELSE s

Navigate(s, r, ps, c) == renderScreen(AutoNavigate(s, r), r, ps, c)

\* The render that follows a state change of client c: the new store values r2, ps2,
\* the screen s2 and the countdown tr2 the handler set, then the effects. A
\* transition to home is taken at once (nothing is rendered until it is over); the
\* lobby stays on the screen until the transition to the game is over (ShowGame).
Commit(c, r2, ps2, s2, tr2) ==
  LET tm == TimerEffect(TimerDeps(room[c], players[c], c), TimerDeps(r2, ps2, c), r2,
                        [tr |-> tr2, ref |-> timerRef[c], ivs |-> intervals[c]], now)
  IN /\ room' = [room EXCEPT ![c] = r2]
     /\ players' = [players EXCEPT ![c] = ps2]
     /\ screen' = [screen EXCEPT ![c] =
                     IF Navigate(s2, r2, ps2, c) = "home" THEN "home" ELSE s2]
     /\ timeRemaining' = [timeRemaining EXCEPT ![c] = tm.tr]
     /\ timerRef' = [timerRef EXCEPT ![c] = tm.ref]
     /\ intervals' = [intervals EXCEPT ![c] = tm.ivs]

(***************************************************************************)
(* The backend and the store (written from spec.md: the hook's source is   *)
(* not in src/)                                                            *)
(***************************************************************************)
\* a field-level update of a row: the fields the patch names are replaced
Merge(row, patch) ==
  [f \in DOMAIN row |-> IF f \in DOMAIN patch THEN patch[f] ELSE row[f]]

NoPatch == [f \in {} |-> 0]

PatchRoom(r, rp) == IF r.exists THEN Merge(r, rp) ELSE r

PatchPlayers(ps, pp) ==
  [p \in Clients |-> IF p \in DOMAIN pp /\ ps[p].present THEN Merge(ps[p], pp[p]) ELSE ps[p]]

\* a client that receives the room's change notifications and broadcasts
Subscribed(c) == mounted[c] /\ room[c].exists

\* model bound: a write waits while another subscriber's inbox is full
InboxBound == IF srvRoom.status = "playing" THEN MaxInbox ELSE MaxLobbyInbox

CanWrite(c) == \A d \in Clients \ {c} : Subscribed(d) => Len(inbox[d]) < InboxBound

\* the change notification of a write: the rows it changed, as the backend holds them
DbItem(roomChanged, r, changed, ps) ==
  [kind |-> "db", roomChanged |-> roomChanged, room |-> IF roomChanged THEN r ELSE NoRoom,
   changed |-> changed, rows |-> [p \in Clients |-> IF p \in changed THEN ps[p] ELSE NoPlayer],
   from |-> 0, text |-> <<>>]

ChatItem(from, text) ==
  [kind |-> "chat", roomChanged |-> FALSE, room |-> NoRoom, changed |-> {},
   rows |-> NoPlayers, from |-> from, text |-> text]

\* fan-out of an item to every subscriber but the writer, whose inbox becomes mine
Notify(c, item, mine) ==
  inbox' = [d \in Clients |->
              IF d = c THEN mine
              ELSE IF Subscribed(d) THEN Append(inbox[d], item) ELSE inbox[d]]

\* One write of client c: the room patch rp and the player patches pp go to the
\* backend, are mirrored in c's store, and are notified to the other subscribers.
Write(c, rp, pp, s2, tr2, mine) ==
  LET r1 == PatchRoom(srvRoom, rp)
      ps1 == PatchPlayers(srvPlayers, pp)
      roomChanged == srvRoom.exists /\ DOMAIN rp # {}
      changed == {p \in DOMAIN pp : srvPlayers[p].present}
  IN /\ srvRoom' = r1
     /\ srvPlayers' = ps1
     /\ Notify(c, DbItem(roomChanged, r1, changed, ps1), mine)
     /\ Commit(c, PatchRoom(room[c], rp), PatchPlayers(players[c], pp), s2, tr2)


(***************************************************************************)
(* Initial state: MultiplayerApp mounted on every device, no room          *)
(***************************************************************************)
InitialTimeRemaining == 60

\* timerEnds: round-ends submitted by a countdown, timerBy: the client of the last one;
\* expired: a countdown reached zero on a client that did not submit;
\* awards: round-ends submitted on a correct guess, guesser: the sender of the last one;
\* ret[c]: what handleCreateRoom / handleJoinRoom returned to the create or join screen
\* that device c shows ("none": not called since the screen was opened)
\* endCalls: calls of endRound made by a countdown, whatever became of the write;
\* calledAt: the caller of the last one and the round (current_round and
\* round_start_time of the caller's snapshot) it was made in
NoHist == [timerEnds |-> 0, timerBy |-> 0, expired |-> FALSE, awards |-> 0, guesser |-> 0,
           ret |-> [c \in Clients |-> "none"], endCalls |-> 0, calledAt |-> <<>>]

Init ==
  /\ now = 0
  /\ srvRoom = NoRoom
  /\ srvPlayers = NoPlayers
  /\ room = [c \in Clients |-> NoRoom]
  /\ players = [c \in Clients |-> NoPlayers]
  /\ inbox = [c \in Clients |-> <<>>]
  /\ messages = [c \in Clients |-> <<>>]
  /\ error = [c \in Clients |-> "none"]
  /\ screen = [c \in Clients |-> "home"]
  /\ timeRemaining = [c \in Clients |-> InitialTimeRemaining]
  /\ timerRef = [c \in Clients |-> 0]
  /\ intervals = [c \in Clients |-> {}]
  /\ mounted = [c \in Clients |-> TRUE]
  /\ startPending = [c \in Clients |-> FALSE]
  /\ sent = 0
  /\ hist = NoHist
  /\ canvas = [c \in Clients |-> NoCanvas]
  /\ drawings = NoDrawings
  /\ localGame = [c \in Clients |-> NoLocalGame]
  /\ configured = [c \in Clients |-> TRUE]

\* Date.now() advances
AdvanceClock ==
  /\ now + ClockStep <= MaxNow
  /\ now' = now + ClockStep
  /\ UNCHANGED <<srvRoom, srvPlayers, room, players, inbox, messages, error, screen,
                 timeRemaining, timerRef, intervals, mounted, startPending, sent, hist>>
  /\ UNCHANGED <<drawVars, configured>>

(***************************************************************************)
(* Home, create and join screens                                           *)
(***************************************************************************)
\* HomeScreen onCreateRoom / onJoinRoom, CreateRoomScreen / JoinRoomScreen onBack
GoTo(c, s) ==
  /\ mounted[c]
  /\ \/ screen[c] = "home" /\ s \in {"create", "join"}
     \/ screen[c] \in {"create", "join"} /\ s = "home"
  /\ screen' = [screen EXCEPT ![c] = s]
  /\ hist' = [hist EXCEPT !.ret[c] = "none"]
  /\ UNCHANGED <<now, srvRoom, srvPlayers, room, players, inbox, messages, error,
                 timeRemaining, timerRef, intervals, mounted, startPending, sent>>
  /\ UNCHANGED <<drawVars, configured>>

\* model bound: the room code the model follows is the one this device creates (a
\* room created on another device has another code)
Creator == CHOOSE c \in Clients : \A d \in Clients : c <= d

\* createRoom of the hook: a fresh room row and the creator's player row, as host
createRoom(c, allow) ==
  LET r == [exists |-> TRUE, status |-> "waiting", timer_seconds |-> TimerSeconds,
            allow_tag_team |-> allow, current_round |-> 0, current_word |-> NoWord,
            drawing_team |-> 0, round_start_time |-> -1]
      ps == [NoPlayers EXCEPT ![c] = [NoPlayer EXCEPT !.present = TRUE, !.is_host = TRUE]]
  IN /\ srvRoom' = r
     /\ srvPlayers' = ps
     /\ Commit(c, r, ps, "lobby", timeRemaining[c])

\* a handleCreateRoom that does not look at the configuration
handleCreateRoom_NoCheck(c, allow) ==
  /\ createRoom(c, allow)
  /\ error' = [error EXCEPT ![c] = "none"]
  /\ hist' = [hist EXCEPT !.ret[c] = "code"]

\* handleCreateRoom: without credentials an alert and null, else createRoom's result
handleCreateRoom(c, allow) ==
  IF ~configured[c]
  THEN /\ hist' = [hist EXCEPT !.ret[c] = "null"]
       /\ UNCHANGED <<srvRoom, srvPlayers, room, players, screen, timeRemaining, timerRef,
                      intervals, error>>
  ELSE /\ createRoom(c, allow)
       /\ error' = [error EXCEPT ![c] = "none"]
       /\ hist' = [hist EXCEPT !.ret[c] = "code"]

\* CreateRoomScreen submit: handleCreateRoom, then onRoomCreated when it returns a code
CreateRoom(c, allow) ==
  /\ mounted[c]
  /\ screen[c] = "create"
  /\ c = Creator
  /\ ~srvRoom.exists
  /\ handleCreateRoom(c, allow)
  /\ UNCHANGED <<now, inbox, messages, mounted, startPending, sent>>
  /\ UNCHANGED <<drawVars, configured>>

\* a join that seeds the joining player as a host
joinRoom_AsHost(c) ==
  IF srvRoom.exists /\ srvRoom.status = "waiting"
  THEN LET ps == [srvPlayers EXCEPT ![c] =
                    [NoPlayer EXCEPT !.present = TRUE, !.is_host = TRUE]]
       IN /\ CanWrite(c)
          /\ srvPlayers' = ps
          /\ Notify(c, DbItem(FALSE, srvRoom, {c}, ps), <<>>)
          /\ Commit(c, srvRoom, ps, "lobby", timeRemaining[c])
          /\ error' = [error EXCEPT ![c] = "none"]
  ELSE /\ error' = [error EXCEPT ![c] = "NotFound"]
       /\ UNCHANGED <<srvPlayers, inbox, room, players, screen, timeRemaining, timerRef,
                      intervals>>

\* joinRoom of the hook: the code must resolve to a waiting room
joinRoom(c) ==
  IF srvRoom.exists /\ srvRoom.status = "waiting"
  THEN LET ps == [srvPlayers EXCEPT ![c] = [NoPlayer EXCEPT !.present = TRUE]]
       IN /\ CanWrite(c)
          /\ srvPlayers' = ps
          /\ Notify(c, DbItem(FALSE, srvRoom, {c}, ps), <<>>)
          /\ Commit(c, srvRoom, ps, "lobby", timeRemaining[c])
          /\ error' = [error EXCEPT ![c] = "none"]
  ELSE /\ error' = [error EXCEPT ![c] = "NotFound"]
       /\ UNCHANGED <<srvPlayers, inbox, room, players, screen, timeRemaining, timerRef,
                      intervals>>

\* a handleJoinRoom that does not look at the configuration
handleJoinRoom_NoCheck(c) ==
  /\ joinRoom(c)
  /\ hist' = [hist EXCEPT !.ret[c] =
                IF srvRoom.exists /\ srvRoom.status = "waiting" THEN "true" ELSE "false"]

\* handleJoinRoom: without credentials an alert and false, else joinRoom's result
handleJoinRoom(c) ==
  IF ~configured[c]
  THEN /\ hist' = [hist EXCEPT !.ret[c] = "false"]
       /\ UNCHANGED <<srvPlayers, inbox, room, players, screen, timeRemaining, timerRef,
                      intervals, error>>
  ELSE /\ joinRoom(c)
       /\ hist' = [hist EXCEPT !.ret[c] =
                     IF srvRoom.exists /\ srvRoom.status = "waiting" THEN "true"
                     ELSE "false"]

\* JoinRoomScreen submit: handleJoinRoom, then onJoined when it returns true
JoinRoom(c) ==
  /\ mounted[c]
  /\ screen[c] = "join"
  /\ handleJoinRoom(c)
  /\ UNCHANGED <<now, srvRoom, messages, mounted, startPending, sent>>
  /\ UNCHANGED <<drawVars, configured>>

(***************************************************************************)
(* Lobby                                                                   *)
(***************************************************************************)
InLobby(c) ==
  mounted[c] /\ screen[c] = "lobby" /\ room[c].exists /\ players[c][c].present

\* joinTeam of the hook
joinTeam(c, t) ==
  /\ t \in {1, 2}
  /\ Write(c, NoPatch, [p \in {c} |-> [team |-> t]], screen[c], timeRemaining[c],
           inbox[c])

\* LobbyScreen team card: handleTeamPress, disabled on the player's own team
JoinTeam(c, t) ==
  /\ InLobby(c)
  /\ players[c][c].team # t
  /\ CanWrite(c)
  /\ joinTeam(c, t)
  /\ error' = [error EXCEPT ![c] = "none"]
  /\ UNCHANGED <<now, messages, mounted, startPending, sent, hist>>
  /\ UNCHANGED <<drawVars, configured>>

\* toggleReady of the hook
toggleReady(c) ==
  Write(c, NoPatch, [p \in {c} |-> [is_ready |-> ~players[c][c].is_ready]], screen[c],
        timeRemaining[c], inbox[c])

\* LobbyScreen ready button: rendered once the player has a team
ReadyButtonShown(c) == InLobby(c) /\ players[c][c].team # 0

ToggleReady(c) ==
  /\ ReadyButtonShown(c)
  /\ CanWrite(c)
  /\ toggleReady(c)
  /\ error' = [error EXCEPT ![c] = "none"]
  /\ UNCHANGED <<now, messages, mounted, startPending, sent, hist>>
  /\ UNCHANGED <<drawVars, configured>>

\* LobbyScreen start button: rendered for a host with a team, disabled unless canStart
StartButtonEnabled(c) ==
  /\ InLobby(c)
  /\ players[c][c].team # 0
  /\ players[c][c].is_host
  /\ canStart(players[c], c)

\* handleStartPress: the press animation starts; onStartGame runs when it ends
StartPress(c) ==
  /\ StartButtonEnabled(c)
  /\ ~startPending[c]
  /\ startPending' = [startPending EXCEPT ![c] = TRUE]
  /\ UNCHANGED <<now, srvRoom, srvPlayers, room, players, inbox, messages, error, screen,
                 timeRemaining, timerRef, intervals, mounted, sent, hist>>
  /\ UNCHANGED <<drawVars, configured>>

\* the precondition of start-game, checked on the client's store
StartPrecondition(c) ==
  /\ room[c].exists
  /\ room[c].status = "waiting"
  /\ Cardinality({p \in Clients : players[c][p].present}) >= 2
  /\ \A p \in Clients : players[c][p].present => players[c][p].is_ready
  /\ teamPlayers(players[c], 1) # {}
  /\ teamPlayers(players[c], 2) # {}

\* a startGame that marks the caller as drawer before it finds the precondition failed
startGame_DrawerFirst(c, d, w, s2) ==
  IF StartPrecondition(c)
  THEN /\ CanWrite(c)
       /\ d \in teamPlayers(players[c], 1)
       /\ w \in WordPool
       /\ Write(c, [status |-> "playing", drawing_team |-> 1, current_word |-> w,
                    round_start_time |-> now],
                [p \in {d} |-> [is_drawing |-> TRUE]], s2, timeRemaining[c], inbox[c])
       /\ error' = [error EXCEPT ![c] = "none"]
  ELSE /\ d = c
       /\ w = NoWord
       /\ CanWrite(c)
       /\ Write(c, NoPatch, [p \in {c} |-> [is_drawing |-> TRUE]], s2, timeRemaining[c],
                inbox[c])
       /\ error' = [error EXCEPT ![c] = "PreconditionFailed"]

\* startGame of the hook: team 1 draws first, one drawer of that team, a word, the
\* round's start time
startGame(c, d, w, s2) ==
  IF StartPrecondition(c)
  THEN /\ CanWrite(c)
       /\ d \in teamPlayers(players[c], 1)
       /\ w \in WordPool
       /\ Write(c, [status |-> "playing", drawing_team |-> 1, current_word |-> w,
                    round_start_time |-> now],
                [p \in {d} |-> [is_drawing |-> TRUE]], s2, timeRemaining[c], inbox[c])
       /\ error' = [error EXCEPT ![c] = "none"]
  ELSE /\ d = c
       /\ w = NoWord
       /\ Commit(c, room[c], players[c], s2, timeRemaining[c])
       /\ error' = [error EXCEPT ![c] = "PreconditionFailed"]
       /\ UNCHANGED <<srvRoom, srvPlayers, inbox>>

\* handleStartGame: startGame(); transitionTo('game')
handleStartGame(c, d, w) == startGame(c, d, w, "game")

StartGame(c, d, w) ==
  /\ mounted[c]
  /\ startPending[c]
  /\ handleStartGame(c, d, w)
  /\ startPending' = [startPending EXCEPT ![c] = FALSE]
  /\ UNCHANGED <<now, messages, mounted, sent, hist>>
  /\ UNCHANGED <<drawVars, configured>>

\* A command of the hook whose write the backend or the network refuses: the hook
\* sets the error slot to TransportError and returns (createRoom null, joinRoom
\* false); nothing was written and the store is as it was. The commands are those of
\* the create and join screens and of the lobby's team cards and ready button.
TransportFails(c) ==
  /\ mounted[c]
  /\ configured[c]
  /\ \/ screen[c] = "create" /\ c = Creator /\ ~srvRoom.exists
     \/ screen[c] = "join"
     \/ InLobby(c)
  /\ error' = [error EXCEPT ![c] = "TransportError"]
  /\ hist' = [hist EXCEPT !.ret[c] = IF screen[c] = "create" THEN "null"
                                     ELSE IF screen[c] = "join" THEN "false" ELSE @]
  /\ UNCHANGED <<now, srvRoom, srvPlayers, room, players, inbox, messages, screen,
                 timeRemaining, timerRef, intervals, mounted, startPending, sent>>
  /\ UNCHANGED <<drawVars, configured>>


(***************************************************************************)
(* Game: the countdown and the round-end                                   *)
(***************************************************************************)
\* currentPlayer?.is_host
IsHost(c) == players[c][c].present /\ players[c][c].is_host

\* the other team
Other(t) == IF t = 1 THEN 2 ELSE 1

\* the drawers a round-end may pick: a member of team t, or none (0) when it is empty
Drawers(ps, t) == IF teamPlayers(ps, t) = {} THEN {0} ELSE teamPlayers(ps, t)

\* a round-end that keeps the drawing team
EndRoundRoomPatch_SameTeam(c, w) ==
  [current_round |-> room[c].current_round + 1,
   drawing_team |-> room[c].drawing_team,
   current_word |-> w,
   round_start_time |-> now]

\* the rooms-row fields a round-end writes
EndRoundRoomPatch(c, w) ==
  [current_round |-> room[c].current_round + 1,
   drawing_team |-> Other(room[c].drawing_team),
   current_word |-> w,
   round_start_time |-> now]

\* the players-row fields a round-end writes: the new drawer d draws, nobody else.
\* award is the guesser whose correct guess ended the round (0: none)
EndRoundPlayerPatch(c, d, award) ==
  [p \in {q \in Clients : players[c][q].present} |->
     IF p = award
     THEN [is_drawing |-> p = d, score |-> players[c][p].score + 1]
     ELSE [is_drawing |-> p = d]]

\* endRound of the hook, called by client c with its store playing
endRound(c, w, d, award, tr2, mine) ==
  /\ room[c].exists
  /\ room[c].status = "playing"
  /\ room[c].current_round < MaxRound
  /\ CanWrite(c)
  /\ w \in WordPool
  /\ d \in Drawers(players[c], Other(room[c].drawing_team))
  /\ Write(c, EndRoundRoomPatch(c, w), EndRoundPlayerPatch(c, d, award), screen[c], tr2,
           mine)

\* the callback submits the round-end on every client
TimerSubmits_Everyone(c) == TRUE

\* the interval callback submits the round-end: if (currentPlayer?.is_host) endRound()
TimerSubmits(c) == IsHost(c)

\* setInterval callback of the timer effect, for a scheduled interval h of client c
Tick(c, h, w, d) ==
  /\ mounted[c]
  /\ h \in intervals[c]
  /\ IF timeRemaining[c] <= 1
     THEN IF TimerSubmits(c)
          THEN /\ endRound(c, w, d, 0, room[c].timer_seconds, inbox[c])
               /\ hist' = [hist EXCEPT !.timerEnds = @ + 1, !.timerBy = c,
                                       !.endCalls = @ + 1,
                                       !.calledAt = <<c, room[c].current_round,
                                                      room[c].round_start_time>>]
          ELSE /\ w = NoWord /\ d = 0
               /\ timeRemaining' = [timeRemaining EXCEPT ![c] = room[c].timer_seconds]
               /\ hist' = [hist EXCEPT !.expired = TRUE]
               /\ UNCHANGED <<srvRoom, srvPlayers, room, players, inbox, screen, timerRef,
                              intervals>>
     ELSE /\ w = NoWord /\ d = 0
          /\ timeRemaining' = [timeRemaining EXCEPT ![c] = timeRemaining[c] - 1]
          /\ UNCHANGED <<srvRoom, srvPlayers, room, players, inbox, screen, timerRef,
                         intervals, hist>>
  /\ UNCHANGED <<now, messages, error, mounted, startPending, sent>>
  /\ UNCHANGED <<drawVars, configured>>

\* The interval callback at zero on a host whose round-end write the backend or the
\* network refuses: endRound sets the error slot and writes nothing, the store is
\* as it was, so the timer effect does not run again; the updater returns
\* room.settings.timer_seconds and the interval goes on.
TickFails(c, h) ==
  /\ mounted[c]
  /\ h \in intervals[c]
  /\ timeRemaining[c] <= 1
  /\ TimerSubmits(c)
  /\ room[c].exists
  /\ room[c].status = "playing"
  /\ hist.endCalls < MaxCalls
  /\ error' = [error EXCEPT ![c] = "TransportError"]
  /\ timeRemaining' = [timeRemaining EXCEPT ![c] = room[c].timer_seconds]
  /\ hist' = [hist EXCEPT !.endCalls = @ + 1,
                          !.calledAt = <<c, room[c].current_round,
                                         room[c].round_start_time>>]
  /\ UNCHANGED <<now, srvRoom, srvPlayers, room, players, inbox, messages, screen,
                 timerRef, intervals, mounted, startPending, sent>>
  /\ UNCHANGED <<drawVars, configured>>

(***************************************************************************)
(* Game: tag-team handoff                                                  *)
(***************************************************************************)
InGame(c) ==
  mounted[c] /\ screen[c] = "game" /\ room[c].exists /\ players[c][c].present

\* the buttons rendered whatever the room's allow_tag_team setting
TagTeamButtons_AnyRoom(c) ==
  IF InGame(c) /\ players[c][c].is_drawing THEN teammates(players[c], c) ELSE {}

\* the tag-team buttons rendered: inside the drawer's tools, when the room allows it
TagTeamButtons(c) ==
  IF InGame(c) /\ players[c][c].is_drawing /\ room[c].allow_tag_team
  THEN teammates(players[c], c)
  ELSE {}

\* tagTeam of the hook: drawing duty moves from the caller to player t
tagTeam(c, t) ==
  Write(c, NoPatch,
        [p \in {c, t} |-> IF p = t THEN [is_drawing |-> TRUE] ELSE [is_drawing |-> FALSE]],
        screen[c], timeRemaining[c], inbox[c])

TagTeam(c, t) ==
  /\ t \in TagTeamButtons(c)
  /\ CanWrite(c)
  /\ tagTeam(c, t)
  /\ error' = [error EXCEPT ![c] = "none"]
  /\ UNCHANGED <<now, messages, mounted, startPending, sent, hist>>
  /\ UNCHANGED <<drawVars, configured>>

(***************************************************************************)
(* Game: chat and guesses                                                  *)
(***************************************************************************)
\* the chat box is rendered for the guessing team only
ChatShown(c) == InGame(c) /\ isGuessingTeam(room[c], players[c], c)

\* the typed text is handed to onSendChat as it is
handleSendChat_Raw(chatInput) == chatInput

\* handleSendChat: what is handed to onSendChat for the typed text, <<>> = nothing
handleSendChat(chatInput) == IF trim(chatInput) = <<>> THEN <<>> ELSE trim(chatInput)

\* the channel delivers a broadcast to every subscriber, the sender included
Broadcast(item) ==
  inbox' = [d \in Clients |-> IF Subscribed(d) THEN Append(inbox[d], item) ELSE inbox[d]]

CanBroadcast == \A d \in Clients : Subscribed(d) => Len(inbox[d]) < InboxBound

SendChat(c, chatInput) ==
  /\ ChatShown(c)
  /\ sent < MaxMsgs
  /\ CanBroadcast
  /\ IF handleSendChat(chatInput) = <<>>
     THEN UNCHANGED <<inbox, sent>>
     ELSE /\ Broadcast(ChatItem(c, handleSendChat(chatInput)))
          /\ sent' = sent + 1
  /\ UNCHANGED <<now, srvRoom, srvPlayers, room, players, messages, error, screen,
                 timeRemaining, timerRef, intervals, mounted, startPending, hist>>
  /\ UNCHANGED <<drawVars, configured>>

\* the sender of a message is a member of the team that is not drawing
SenderGuesses(r, ps, from) ==
  /\ ps[from].present
  /\ ps[from].team \in {1, 2}
  /\ ps[from].team # r.drawing_team

\* the matching logic of the receiving side: the sender is on the guessing team and
\* the trimmed, case-folded text equals the trimmed, case-folded word
IsCorrectGuess(r, ps, from, text) ==
  /\ r.status = "playing"
  /\ SenderGuesses(r, ps, from)
  /\ r.current_word # NoWord
  /\ toLowerCase(trim(text)) = toLowerCase(trim(r.current_word))

ChatMessage(r, ps, from, text) ==
  [player_id |-> from, text |-> text, is_correct_guess |-> IsCorrectGuess(r, ps, from, text)]

\* every receiver scores the guess
GuessAuthority_Everyone(c) == TRUE

\* the one client that scores a correct guess and ends the round on it: the host
GuessAuthority(c) == IsHost(c)

\* the message is marked and shown, and nothing else happens
ReceiveChat_MarkOnly(c, item, w, d) ==
  /\ messages' = [messages EXCEPT ![c] =
                    Append(@, ChatMessage(room[c], players[c], item.from, item.text))]
  /\ w = NoWord /\ d = 0
  /\ inbox' = [inbox EXCEPT ![c] = Tail(@)]
  /\ UNCHANGED <<srvRoom, srvPlayers, room, players, screen, timeRemaining,
                 timerRef, intervals, hist>>

\* a broadcast chat message arrives at client c
ReceiveChat(c, item, w, d) ==
  /\ messages' = [messages EXCEPT ![c] =
                    Append(@, ChatMessage(room[c], players[c], item.from, item.text))]
  /\ IF IsCorrectGuess(room[c], players[c], item.from, item.text) /\ GuessAuthority(c)
     THEN /\ endRound(c, w, d, item.from, timeRemaining[c], Tail(inbox[c]))
          /\ hist' = [hist EXCEPT !.awards = @ + 1, !.guesser = item.from]
     ELSE /\ w = NoWord /\ d = 0
          /\ inbox' = [inbox EXCEPT ![c] = Tail(@)]
          /\ UNCHANGED <<srvRoom, srvPlayers, room, players, screen, timeRemaining,
                         timerRef, intervals, hist>>

\* a change notification arrives at client c: the changed rows replace the store's
ReceiveDb(c, item) ==
  Commit(c,
         IF item.roomChanged THEN item.room ELSE room[c],
         [p \in Clients |-> IF p \in item.changed THEN item.rows[p] ELSE players[c][p]],
         screen[c], timeRemaining[c])

Deliver(c, w, d) ==
  /\ Subscribed(c)
  /\ inbox[c] # <<>>
  /\ LET item == Head(inbox[c])
     IN IF item.kind = "chat"
        THEN ReceiveChat(c, item, w, d)
        ELSE /\ w = NoWord /\ d = 0
             /\ ReceiveDb(c, item)
             /\ inbox' = [inbox EXCEPT ![c] = Tail(@)]
             /\ UNCHANGED <<srvRoom, srvPlayers, messages, hist>>
  /\ UNCHANGED <<now, error, mounted, startPending, sent>>
  /\ UNCHANGED <<drawVars, configured>>


(***************************************************************************)
(* Leaving and unmounting                                                  *)
(***************************************************************************)
\* a leaveRoom that empties the store and leaves the player's row in the backend
leaveRoom_KeepRow(c, s2) ==
  /\ UNCHANGED srvPlayers
  /\ Notify(c, DbItem(FALSE, srvRoom, {}, srvPlayers), <<>>)
  /\ messages' = [messages EXCEPT ![c] = <<>>]
  /\ Commit(c, NoRoom, NoPlayers, s2, timeRemaining[c])

\* leaveRoom of the hook: the player's row is deleted, the store is emptied and the
\* client stops receiving the room's notifications
leaveRoom(c, s2) ==
  LET ps == [srvPlayers EXCEPT ![c] = NoPlayer]
  IN /\ srvPlayers' = ps
     /\ Notify(c, DbItem(FALSE, srvRoom, {c}, ps), <<>>)
     /\ messages' = [messages EXCEPT ![c] = <<>>]
     /\ Commit(c, NoRoom, NoPlayers, s2, timeRemaining[c])

\* handleLeave, "Leave" chosen: leaveRoom(); transitionTo('home')
handleLeave(c) == leaveRoom(c, "home")

\* the leave button of the lobby (the game screen renders none)
Leave(c) ==
  /\ InLobby(c)
  /\ CanWrite(c)
  /\ handleLeave(c)
  /\ error' = [error EXCEPT ![c] = "none"]
  /\ hist' = [hist EXCEPT !.ret[c] = "none"]
  /\ UNCHANGED <<now, srvRoom, mounted, startPending, sent>>
  /\ UNCHANGED <<drawVars, configured>>

\* the transition of the auto-navigate effect from the lobby to the game is over
ShowGame(c) ==
  /\ mounted[c]
  /\ screen[c] = "lobby"
  /\ AutoNavigate(screen[c], room[c]) = "game"
  /\ screen' = [screen EXCEPT ![c] = "game"]
  /\ UNCHANGED <<now, srvRoom, srvPlayers, room, players, inbox, messages, error,
                 timeRemaining, timerRef, intervals, mounted, startPending, sent, hist>>
  /\ UNCHANGED <<drawVars, configured>>

\* HomeScreen onLocalPlay: the wrapper App replaces MultiplayerApp; the cleanup of
\* the timer effect runs if its last run was in a playing room, and the component's
\* state is discarded
Unmount(c) ==
  /\ mounted[c]
  /\ screen[c] = "home"
  /\ mounted' = [mounted EXCEPT ![c] = FALSE]
  /\ LET tm == [tr |-> InitialTimeRemaining, ref |-> timerRef[c], ivs |-> intervals[c]]
         after == IF room[c].status = "playing" THEN TimerCleanup(tm) ELSE tm
     IN /\ timerRef' = [timerRef EXCEPT ![c] = after.ref]
        /\ intervals' = [intervals EXCEPT ![c] = after.ivs]
        /\ timeRemaining' = [timeRemaining EXCEPT ![c] = after.tr]
  /\ startPending' = [startPending EXCEPT ![c] = FALSE]
  /\ error' = [error EXCEPT ![c] = "none"]
  /\ UNCHANGED <<now, srvRoom, srvPlayers, room, players, inbox, messages, screen, sent,
                 hist>>
  /\ UNCHANGED <<drawVars, configured>>


(***************************************************************************)
(* Game: the canvas of MultiplayerGameScreen                               *)
(***************************************************************************)
\* currentPlayer?.is_drawing
isDrawing(c) == players[c][c].present /\ players[c][c].is_drawing

\* a slice that drops the first element instead
slice_DropFirst(s, begin, end) == SubSeq(s, 2, Len(s))

\* Array.prototype.slice(begin, end) of a list, with its negative indices
slice(s, begin, end) ==
  LET len == Len(s)
      k == IF begin < 0 THEN Max(len + begin, 0) ELSE (IF begin < len THEN begin ELSE len)
      final == IF end < 0 THEN Max(len + end, 0) ELSE (IF end < len THEN end ELSE len)
  IN SubSeq(s, k + 1, final)

\* the event a handler builds: the selected color and brush size are on every event
DrawingEvent(type, x, y, cv) ==
  [type |-> type, x |-> x, y |-> y, color |-> cv.selectedColor,
   brushSize |-> cv.brushSize, timestamp |-> now]

\* onSendDrawing(event)
onSendDrawing(cv, ev) == [cv EXCEPT !.emitted = Append(@, ev)]

\* handleTouchStart: a new current path with the touched place, and a start event
handleTouchStart(c, cv, pt) ==
  IF ~isDrawing(c) THEN cv
  ELSE onSendDrawing(
         [cv EXCEPT !.currentPath = [id |-> now, points |-> <<pt>>,
                                     color |-> cv.selectedColor,
                                     brushSize |-> cv.brushSize]],
         DrawingEvent("start", pt[1], pt[2], cv))

\* a touch move that puts the new place in front of the path's points
handleTouchMove_Prepend(c, cv, pt) ==
  IF ~isDrawing(c) \/ cv.currentPath = NoPath THEN cv
  ELSE onSendDrawing([cv EXCEPT !.currentPath.points = <<pt>> \o @],
                     DrawingEvent("move", pt[1], pt[2], cv))

\* a touch move that does not test for a current path
handleTouchMove_NoGuard(c, cv, pt) ==
  IF ~isDrawing(c) THEN cv
  ELSE onSendDrawing([cv EXCEPT !.currentPath.points = Append(@, pt)],
                     DrawingEvent("move", pt[1], pt[2], cv))

\* handleTouchMove: the touched place is appended to the current path, and a move event
handleTouchMove(c, cv, pt) ==
  IF ~isDrawing(c) \/ cv.currentPath = NoPath THEN cv
  ELSE onSendDrawing([cv EXCEPT !.currentPath.points = Append(@, pt)],
                     DrawingEvent("move", pt[1], pt[2], cv))

\* a touch end that does not test for the drawer
handleTouchEnd_AnyRole(c, cv) ==
  IF cv.currentPath = NoPath THEN cv
  ELSE onSendDrawing([cv EXCEPT !.localPaths = Append(@, cv.currentPath),
                                !.currentPath = NoPath],
                     DrawingEvent("end", NoCoord, NoCoord, cv))

\* handleTouchEnd: the current path joins the local paths, and an end event
handleTouchEnd(c, cv) ==
  IF ~isDrawing(c) \/ cv.currentPath = NoPath THEN cv
  ELSE onSendDrawing([cv EXCEPT !.localPaths = Append(@, cv.currentPath),
                                !.currentPath = NoPath],
                     DrawingEvent("end", NoCoord, NoCoord, cv))

\* a clear that keeps the current path
handleClear_KeepOpen(cv) ==
  onSendDrawing([cv EXCEPT !.localPaths = <<>>],
                DrawingEvent("clear", NoCoord, NoCoord, cv))

\* handleClear
handleClear(cv) ==
  onSendDrawing([cv EXCEPT !.localPaths = <<>>, !.currentPath = NoPath],
                DrawingEvent("clear", NoCoord, NoCoord, cv))

\* handleUndo
handleUndo(cv) ==
  onSendDrawing([cv EXCEPT !.localPaths = slice(@, 0, -1)],
                DrawingEvent("undo", NoCoord, NoCoord, cv))

\* The codec on the receiving side, for one event ev of sender p: start opens a
\* buffer keyed by the sender, move appends to it (ignored without a start), end
\* closes it, clear discards the closed strokes, undo removes the last closed one
ReceiveEvent(dr, p, ev) ==
  CASE ev.type = "start" ->
         [dr EXCEPT !.open[p] = [id |-> p, points |-> <<<<ev.x, ev.y>>>>,
                                 color |-> ev.color, brushSize |-> ev.brushSize]]
    [] ev.type = "move" ->
         IF dr.open[p] = NoPath THEN dr
         ELSE [dr EXCEPT !.open[p].points = Append(@, <<ev.x, ev.y>>)]
    [] ev.type = "end" ->
         IF dr.open[p] = NoPath THEN dr
         ELSE [dr EXCEPT !.closed = Append(@, dr.open[p]), !.open[p] = NoPath]
    [] ev.type = "clear" -> [dr EXCEPT !.closed = <<>>]
    [] ev.type = "undo" -> [dr EXCEPT !.closed = slice(@, 0, -1)]

\* the events evs of sender p, in order
RECURSIVE Receive(_, _, _)
Receive(dr, p, evs) ==
  IF evs = <<>> THEN dr ELSE Receive(ReceiveEvent(dr, p, Head(evs)), p, Tail(evs))

\* the other variables of the model, which the canvas handlers leave alone
gameVars ==
  <<now, srvRoom, srvPlayers, room, players, inbox, messages, error, screen,
    timeRemaining, timerRef, intervals, mounted, startPending, sent, hist, configured>>

\* the type and the coordinates of the events evs
Shapes(evs) == [i \in 1..Len(evs) |-> <<evs[i].type, evs[i].x, evs[i].y>>]

\* a handler runs on the state cv of the screen: op and emitted are those of this run
Run(cv, op) == [cv EXCEPT !.op = op, !.emitted = <<>>]

\* onStartShouldSetResponder, onResponderGrant: a finger touches the canvas at pt
TouchStart(c, pt) ==
  /\ InGame(c)
  /\ ~canvas[c].touching
  /\ isDrawing(c)
  /\ Len(canvas[c].localPaths) < MaxStrokes
  /\ LET cv == handleTouchStart(c, Run(canvas[c], "start"), pt)
     IN canvas' = [canvas EXCEPT ![c] =
                     [cv EXCEPT !.touching = TRUE,
                                !.gesture = [touched |-> <<pt>>, events |-> Shapes(cv.emitted),
                                             color |-> canvas[c].selectedColor,
                                             brushSize |-> canvas[c].brushSize]]]
  /\ drawings' = Receive(drawings, c, canvas'[c].emitted)
  /\ UNCHANGED <<gameVars, localGame>>

\* onResponderMove: the finger moved to pt
TouchMove(c, pt) ==
  /\ InGame(c)
  /\ canvas[c].touching
  /\ Len(canvas[c].gesture.touched) < MaxPoints
  /\ pt # canvas[c].gesture.touched[Len(canvas[c].gesture.touched)]
  /\ LET cv == handleTouchMove(c, Run(canvas[c], "move"), pt)
     IN canvas' = [canvas EXCEPT ![c] =
                     [cv EXCEPT !.gesture.touched = Append(@, pt),
                                !.gesture.events = @ \o Shapes(cv.emitted)]]
  /\ drawings' = Receive(drawings, c, canvas'[c].emitted)
  /\ UNCHANGED <<gameVars, localGame>>

\* onResponderRelease: the finger is lifted
TouchEnd(c) ==
  /\ InGame(c)
  /\ canvas[c].touching
  /\ LET cv == handleTouchEnd(c, Run(canvas[c], "end"))
     IN canvas' = [canvas EXCEPT ![c] =
                     [cv EXCEPT !.touching = FALSE,
                                !.gesture.events = @ \o Shapes(cv.emitted)]]
  /\ drawings' = Receive(drawings, c, canvas'[c].emitted)
  /\ UNCHANGED <<gameVars, localGame>>

\* the responder is taken from the canvas (onResponderTerminate has no handler)
TouchCancel(c) ==
  /\ InGame(c)
  /\ canvas[c].touching
  /\ canvas' = [canvas EXCEPT ![c] = [Run(@, "cancel") EXCEPT !.touching = FALSE]]
  /\ drawings' = Receive(drawings, c, canvas'[c].emitted)
  /\ UNCHANGED <<gameVars, localGame>>

\* the drawing tools are rendered for the drawer
ToolsShown(c) == InGame(c) /\ isDrawing(c)

PickColor(c, color) ==
  /\ ToolsShown(c)
  /\ color # canvas[c].selectedColor
  /\ canvas' = [canvas EXCEPT ![c] = [Run(@, "color") EXCEPT !.selectedColor = color]]
  /\ drawings' = Receive(drawings, c, canvas'[c].emitted)
  /\ UNCHANGED <<gameVars, localGame>>

PickBrush(c, size) ==
  /\ ToolsShown(c)
  /\ size # canvas[c].brushSize
  /\ canvas' = [canvas EXCEPT ![c] = [Run(@, "brush") EXCEPT !.brushSize = size]]
  /\ drawings' = Receive(drawings, c, canvas'[c].emitted)
  /\ UNCHANGED <<gameVars, localGame>>

Clear(c) ==
  /\ ToolsShown(c)
  /\ canvas' = [canvas EXCEPT ![c] = handleClear(Run(@, "clear"))]
  /\ drawings' = Receive(drawings, c, canvas'[c].emitted)
  /\ UNCHANGED <<gameVars, localGame>>

Undo(c) ==
  /\ ToolsShown(c)
  /\ canvas' = [canvas EXCEPT ![c] = handleUndo(Run(@, "undo"))]
  /\ drawings' = Receive(drawings, c, canvas'[c].emitted)
  /\ UNCHANGED <<gameVars, localGame>>

(***************************************************************************)
(* The local game: the canvas of LocalGameApp                              *)
(***************************************************************************)
\* model bound: the places a finger touches, in tenths of a pixel
LocalTouchPoints == {<<14, 25>>, <<36, 5>>}

\* Number.prototype.toFixed(0) of n tenths
toFixed0(n) == (n + 5) \div 10

\* the canvas is rendered while a round is drawn
LocalShown(c) == ~mounted[c] /\ localGame[c].gameState = "drawing"

\* LocalGameApp.handleTouchStart: setCurrentPath(`M${x},${y}`)
LocalTouchStart(c, pt) ==
  /\ LocalShown(c)
  /\ ~localGame[c].touching
  /\ Len(localGame[c].paths) < MaxStrokes
  /\ localGame' = [localGame EXCEPT ![c] =
                     [@ EXCEPT !.currentPath = << <<"M", toFixed0(pt[1]), toFixed0(pt[2])>> >>,
                               !.touching = TRUE, !.op = "start"]]
  /\ UNCHANGED <<gameVars, canvas, drawings>>

\* LocalGameApp.handleTouchMove: setCurrentPath(prev => `${prev} L${x},${y}`)
LocalTouchMove(c, pt) ==
  /\ LocalShown(c)
  /\ localGame[c].touching
  /\ Len(localGame[c].currentPath) < MaxPoints
  /\ localGame' = [localGame EXCEPT ![c] =
                     [@ EXCEPT !.currentPath =
                                 Append(@, <<"L", toFixed0(pt[1]), toFixed0(pt[2])>>),
                               !.op = "move"]]
  /\ UNCHANGED <<gameVars, canvas, drawings>>

\* LocalGameApp.handleTouchEnd: a non-empty current path joins the paths
LocalTouchEnd(c) ==
  /\ LocalShown(c)
  /\ localGame[c].touching
  /\ localGame' = [localGame EXCEPT ![c] =
                     IF @.currentPath # <<>>
                     THEN [@ EXCEPT !.paths = Append(@, [d |-> localGame[c].currentPath,
                                                         color |-> localGame[c].selectedColor,
                                                         strokeWidth |-> localGame[c].brushSize]),
                                    !.currentPath = <<>>,
                                    !.touching = FALSE, !.op = "end"]
                     ELSE [@ EXCEPT !.touching = FALSE, !.op = "end"]]
  /\ UNCHANGED <<gameVars, canvas, drawings>>

\* the responder is taken from the canvas (onResponderTerminate has no handler)
LocalTouchCancel(c) ==
  /\ LocalShown(c)
  /\ localGame[c].touching
  /\ localGame' = [localGame EXCEPT ![c] = [@ EXCEPT !.touching = FALSE, !.op = "cancel"]]
  /\ UNCHANGED <<gameVars, canvas, drawings>>

\* the color buttons of the local game
LocalPickColor(c, color) ==
  /\ LocalShown(c)
  /\ color # localGame[c].selectedColor
  /\ localGame' = [localGame EXCEPT ![c] = [@ EXCEPT !.selectedColor = color, !.op = "color"]]
  /\ UNCHANGED <<gameVars, canvas, drawings>>

\* LocalGameApp.clearCanvas
clearCanvas(lg) == [lg EXCEPT !.paths = <<>>, !.currentPath = <<>>]

ClearCanvas(c) ==
  /\ LocalShown(c)
  /\ localGame' = [localGame EXCEPT ![c] = [clearCanvas(@) EXCEPT !.op = "clear"]]
  /\ UNCHANGED <<gameVars, canvas, drawings>>

\* LocalGameApp.undoLast
undoLast(lg) == [lg EXCEPT !.paths = slice(@, 0, -1)]

UndoLast(c) ==
  /\ LocalShown(c)
  /\ localGame' = [localGame EXCEPT ![c] = [undoLast(@) EXCEPT !.op = "undo"]]
  /\ UNCHANGED <<gameVars, canvas, drawings>>

(***************************************************************************)
(* The local game: rounds, timers, scores and settings of LocalGameApp     *)
(***************************************************************************)
TIME_OPTIONS == {30, 60, 90, 120}
TeamCounts == {2, 3, 4}

\* model bound: the time limits picked in the settings are those up to MaxTimeOption
LocalTimeOptions == {t \in TIME_OPTIONS : t <= MaxTimeOption}

\* LocalGameApp is on the screen of device c
LocalMounted(c) == ~mounted[c] /\ localGame[c].gameState # "none"

\* setTimeout / setInterval return a handle that no pending timer and no ref holds
FreshHandle(lg) ==
  CHOOSE h \in 1..4 :
    /\ h \notin lg.intervals \cup lg.timeouts \cup {lg.timerRef, lg.wordTimerRef}
    /\ \A k \in 1..(h - 1) :
         k \in lg.intervals \cup lg.timeouts \cup {lg.timerRef, lg.wordTimerRef}

\* clearInterval(timerRef.current) under if (timerRef.current)
ClearIntervalRef(lg) == [lg EXCEPT !.intervals = @ \ {lg.timerRef}]

\* the body of the effect on [gameState] when gameState is not 'drawing', which is
\* also the cleanup at unmount: both timers are cleared and both refs set to null
LocalTimerCleanup(lg) ==
  [lg EXCEPT !.intervals = @ \ {lg.timerRef}, !.timerRef = 0,
             !.timeouts = @ \ {lg.wordTimerRef}, !.wordTimerRef = 0]

\* the effect on [gameState], run when the render after a handler changed gameState
LocalEffect(old, new) ==
  IF new.gameState # old.gameState /\ new.gameState # "drawing"
  THEN LocalTimerCleanup(new)
  ELSE new

\* the render after a handler of LocalGameApp and the effects of that render
LocalCommit(c, new, op) ==
  /\ localGame' = [localGame EXCEPT ![c] = [LocalEffect(localGame[c], new) EXCEPT !.op = op]]
  /\ UNCHANGED <<gameVars, canvas, drawings>>

\* onSelectLocal: LocalGameApp is mounted with its initial state
LocalOpen(c) ==
  /\ ~mounted[c]
  /\ localGame[c].gameState = "none"
  /\ localGame' = [localGame EXCEPT ![c] = [NoLocalGame EXCEPT !.gameState = "menu",
                                                               !.op = "open"]]
  /\ UNCHANGED <<gameVars, canvas, drawings>>

\* the back button of the menu: onBack unmounts LocalGameApp; the cleanup of the
\* mount effect clears both timers, and the component's state is gone
LocalBack(c) ==
  /\ LocalMounted(c)
  /\ localGame[c].gameState = "menu"
  /\ localGame' = [localGame EXCEPT ![c] =
                     [NoLocalGame EXCEPT !.intervals = LocalTimerCleanup(localGame[c]).intervals,
                                         !.timeouts = LocalTimerCleanup(localGame[c]).timeouts,
                                         !.op = "back"]]
  /\ UNCHANGED <<gameVars, canvas, drawings>>

\* LocalGameApp.startRound, the start button of the menu
startRound_InitialTime(lg, word) ==
  [lg EXCEPT !.currentWord = word, !.paths = <<>>, !.currentPath = <<>>,
             !.timeLeft = InitialTimeLeft, !.showWord = TRUE,
             !.gameState = "drawing",
             !.wordTimerRef = FreshHandle(lg),
             !.timeouts = @ \cup {FreshHandle(lg)}]

startRound(lg, word) ==
  [lg EXCEPT !.currentWord = word, !.paths = <<>>, !.currentPath = <<>>,
             !.timeLeft = lg.settings.timeLimit, !.showWord = TRUE,
             !.gameState = "drawing",
             !.wordTimerRef = FreshHandle(lg),
             !.timeouts = @ \cup {FreshHandle(lg)}]

StartRound(c, word) ==
  /\ LocalMounted(c)
  /\ localGame[c].gameState = "menu"
  /\ localGame[c].roundNumber < MaxLocalRound
  /\ LocalCommit(c, startRound(localGame[c], word), "startRound")

\* the callback of the 3-second timeout of startRound: the word is hidden and the
\* countdown interval is started
WordTimeout(c, h) ==
  /\ ~mounted[c]
  /\ h \in localGame[c].timeouts
  /\ LocalCommit(c, [localGame[c] EXCEPT !.timeouts = @ \ {h}, !.showWord = FALSE,
                                         !.timerRef = FreshHandle(localGame[c]),
                                         !.intervals = @ \cup {FreshHandle(localGame[c])}],
                 "wordTimeout")

\* the callback of the countdown interval
LocalTick(c, h) ==
  /\ ~mounted[c]
  /\ h \in localGame[c].intervals
  /\ LocalCommit(c, IF localGame[c].timeLeft <= 1
                    THEN [ClearIntervalRef(localGame[c]) EXCEPT !.gameState = "reveal",
                                                               !.timeLeft = 0]
                    ELSE [localGame[c] EXCEPT !.timeLeft = @ - 1],
                 "tick")

\* newScores[currentTeam] += 1 on a copy of the array: an index past the end
\* makes the array longer, leaves holes, and adds 1 to undefined
PlusOne(v) == IF v.kind = "number" THEN Num(v.n + 1) ELSE NaN

IncrementAt(scores, index) ==
  [k \in 1..(IF index + 1 > Len(scores) THEN index + 1 ELSE Len(scores)) |->
     IF k = index + 1
     THEN PlusOne(IF k <= Len(scores) THEN scores[k] ELSE Undefined)
     ELSE IF k <= Len(scores) THEN scores[k] ELSE Undefined]

\* LocalGameApp.handleGuessCorrect and handleSkip
handleGuessCorrect(lg) ==
  [ClearIntervalRef(lg) EXCEPT !.scores = IncrementAt(@, lg.currentTeam),
                               !.currentTeam = (@ + 1) % lg.settings.teamCount,
                               !.roundNumber = @ + 1,
                               !.gameState = "menu"]

handleSkip(lg) ==
  [ClearIntervalRef(lg) EXCEPT !.currentTeam = (@ + 1) % lg.settings.teamCount,
                               !.roundNumber = @ + 1,
                               !.gameState = "menu"]

\* the buttons that end a round are those of the drawing screen, which the modal
\* of the word covers while showWord is true, and those of the reveal
RoundButtons(c) ==
  /\ LocalMounted(c)
  /\ \/ localGame[c].gameState = "drawing" /\ ~localGame[c].showWord
     \/ localGame[c].gameState = "reveal"

\* the correct and skip buttons while drawing, got-it and nope of the reveal
GuessCorrect(c) ==
  /\ RoundButtons(c)
  /\ LocalCommit(c, handleGuessCorrect(localGame[c]), "guessCorrect")

Skip(c) ==
  /\ RoundButtons(c)
  /\ LocalCommit(c, handleSkip(localGame[c]), "skip")

\* LocalGameApp.resetGame, the new-game button of the menu
resetGame(lg) ==
  [lg EXCEPT !.scores = ArrayFill0(lg.settings.teamCount), !.currentTeam = 0,
             !.roundNumber = 1]

ResetGame(c) ==
  /\ LocalMounted(c)
  /\ localGame[c].gameState = "menu"
  /\ LocalCommit(c, resetGame(localGame[c]), "reset")

\* the settings button of the menu and the back button of the settings
OpenSettings(c) ==
  /\ LocalMounted(c)
  /\ localGame[c].gameState = "menu"
  /\ LocalCommit(c, [localGame[c] EXCEPT !.gameState = "settings"], "settings")

CloseSettings(c) ==
  /\ LocalMounted(c)
  /\ localGame[c].gameState = "settings"
  /\ LocalCommit(c, [localGame[c] EXCEPT !.gameState = "menu"], "menu")

\* the timer buttons of the settings
SetTimeLimit(c, time) ==
  /\ LocalMounted(c)
  /\ localGame[c].gameState = "settings"
  /\ LocalCommit(c, [localGame[c] EXCEPT !.settings.timeLimit = time], "timeLimit")

\* the team buttons of the settings: the scores are made anew, the turn is kept
SetTeamCount(c, count) ==
  /\ LocalMounted(c)
  /\ localGame[c].gameState = "settings"
  /\ LocalCommit(c, [localGame[c] EXCEPT !.settings.teamCount = count,
                                         !.scores = ArrayFill0(count)],
                 "teamCount")

(***************************************************************************)
(* The specifications                                                      *)
(***************************************************************************)
\* The lobby: from the start of the app up to the start-game write
Next ==
  \/ \E c \in Clients, s \in {"home", "create", "join"} : GoTo(c, s)
  \/ \E c \in Clients, allow \in BOOLEAN : CreateRoom(c, allow)
  \/ \E c \in Clients : JoinRoom(c)
  \/ \E c \in Clients, t \in {1, 2} : JoinTeam(c, t)
  \/ \E c \in Clients : ToggleReady(c)
  \/ \E c \in Clients : StartPress(c)
  \/ \E c \in Clients, d \in Clients, w \in WordPool \cup {NoWord} : StartGame(c, d, w)
  \/ \E c \in Clients, d \in Clients \cup {0}, w \in WordPool \cup {NoWord} :
       srvRoom.status # "playing" /\ Deliver(c, w, d)
  \/ \E c \in Clients : srvRoom.status # "playing" /\ Leave(c)

Spec == Init /\ [][Next]_vars

\* the devices start as in Init, and at least one of them was built without the
\* backend's credentials
ConfigInit ==
  /\ now = 0
  /\ srvRoom = NoRoom
  /\ srvPlayers = NoPlayers
  /\ room = [c \in Clients |-> NoRoom]
  /\ players = [c \in Clients |-> NoPlayers]
  /\ inbox = [c \in Clients |-> <<>>]
  /\ messages = [c \in Clients |-> <<>>]
  /\ error = [c \in Clients |-> "none"]
  /\ screen = [c \in Clients |-> "home"]
  /\ timeRemaining = [c \in Clients |-> InitialTimeRemaining]
  /\ timerRef = [c \in Clients |-> 0]
  /\ intervals = [c \in Clients |-> {}]
  /\ mounted = [c \in Clients |-> TRUE]
  /\ startPending = [c \in Clients |-> FALSE]
  /\ sent = 0
  /\ hist = NoHist
  /\ canvas = [c \in Clients |-> NoCanvas]
  /\ drawings = NoDrawings
  /\ localGame = [c \in Clients |-> NoLocalGame]
  /\ configured \in [Clients -> BOOLEAN]
  /\ \E c \in Clients : ~configured[c]

SpecConfig == ConfigInit /\ [][Next]_vars

\* the lobby with writes that may fail (model bound: from ConfigInit, so that at most
\* two devices take part)
NextFail ==
  \/ Next
  \/ \E c \in Clients : srvRoom.status # "playing" /\ TransportFails(c)

SpecFail == ConfigInit /\ [][NextFail]_vars

\* the lobby assignments start-game accepts: every device joined and ready, both teams
\* taken (the devices other than the creator are interchangeable)
StartTeams ==
  {tm \in [Clients -> {1, 2}] :
     /\ \A p, q \in Clients \ {Creator} : p <= q => tm[p] <= tm[q]
     /\ \E p \in Clients : tm[p] = 1
     /\ \E p \in Clients : tm[p] = 2}

\* The state in which the host (the creator) ran handleStartGame at time t0 from a
\* lobby every device had joined and was up to date with, and no device has taken a
\* step since: the write is in the backend and mirrored in the host's store, the
\* other devices have its notification in their inbox, and the clock reads t.
\* tm: the teams, w: the word, d: the drawer, dur: the room's timer_seconds
GameStart(tm, allow, w, d, dur, t0, t) ==
  LET lobbyRoom == [exists |-> TRUE, status |-> "waiting", timer_seconds |-> dur,
                    allow_tag_team |-> allow, current_round |-> 0,
                    current_word |-> NoWord, drawing_team |-> 0, round_start_time |-> -1]
      lobbyPlayers == [p \in Clients |->
                         [present |-> TRUE, team |-> tm[p], is_host |-> p = Creator,
                          is_ready |-> TRUE, is_drawing |-> FALSE, score |-> 0]]
      r == Merge(lobbyRoom, [status |-> "playing", drawing_team |-> 1,
                             current_word |-> w, round_start_time |-> t0])
      ps == [lobbyPlayers EXCEPT ![d].is_drawing = TRUE]
  IN /\ now = t
     /\ srvRoom = r
     /\ srvPlayers = ps
     /\ room = [c \in Clients |-> IF c = Creator THEN r ELSE lobbyRoom]
     /\ players = [c \in Clients |-> IF c = Creator THEN ps ELSE lobbyPlayers]
     /\ inbox = [c \in Clients |->
                   IF c = Creator THEN <<>> ELSE <<DbItem(TRUE, r, {d}, ps)>>]
     /\ messages = [c \in Clients |-> <<>>]
     /\ error = [c \in Clients |-> "none"]
     /\ screen = [c \in Clients |-> IF c = Creator THEN "game" ELSE "lobby"]
     /\ timeRemaining = [c \in Clients |->
                           IF c = Creator THEN dur ELSE InitialTimeRemaining]
     /\ timerRef = [c \in Clients |-> IF c = Creator THEN 1 ELSE 0]
     /\ intervals = [c \in Clients |-> IF c = Creator THEN {1} ELSE {}]
     /\ mounted = [c \in Clients |-> TRUE]
     /\ startPending = [c \in Clients |-> FALSE]
     /\ sent = 0
     /\ hist = NoHist
     /\ canvas = [c \in Clients |-> NoCanvas]
     /\ drawings = NoDrawings
     /\ localGame = [c \in Clients |-> NoLocalGame]
     /\ configured = [c \in Clients |-> TRUE]

GameInit ==
  \E tm \in StartTeams, allow \in BOOLEAN, w \in WordPool :
    \E d \in {p \in Clients : tm[p] = 1} :
      GameStart(tm, allow, w, d, TimerSeconds, 0, 0)

\* The remaining-time computation: rooms with any duration and start time (absent
\* included), observed by the other devices e whole seconds after the start
Durations == {1, 2, 60}
StartTimes == {-1, 0, 7000}

RemainingInit ==
  \E dur \in Durations, t0 \in StartTimes, e \in 0..MaxElapsed, w \in WordPool :
    GameStart([p \in Clients |-> IF p = Creator THEN 1 ELSE 2], FALSE, w, Creator, dur, t0,
              Max(t0, 0) + 1000 * e)

NextRemaining ==
  \/ \E c \in Clients, d \in Clients \cup {0}, w \in WordPool \cup {NoWord} :
       Deliver(c, w, d)
  \/ \E c \in Clients : ShowGame(c)

SpecRemaining == RemainingInit /\ [][NextRemaining]_vars

\* The chat: rooms with any word of ChatWords, texts of ChatTexts typed by the players
ChatWords ==
  { <<"E", "l", "e", "p", "h", "a", "n", "t">>, <<" ", "C", "a", "t">> }

ChatTexts ==
  { <<" ", "e", "l", "e", "p", "h", "a", "n", "t", " ">>,
    <<"e", "l", "e", "p", "h", "a", "n", "t", "s">>,
    <<"E", "L", "E", "P", "H", "A", "N", "T">>,
    <<"c", "a", "t", " ">>,
    <<"c", " ", "a", "t">>,
    <<" ", " ">>,
    <<>> }

ChatInit ==
  \E tm \in StartTeams, w \in ChatWords :
    \E d \in {p \in Clients : tm[p] = 1} :
      GameStart(tm, FALSE, w, d, TimerSeconds, 0, 0)

NextChat ==
  \/ \E c \in Clients, x \in ChatTexts : SendChat(c, x)
  \/ \E c \in Clients, d \in Clients \cup {0}, w \in WordPool \cup {NoWord} :
       Deliver(c, w, d)
  \/ \E c \in Clients : ShowGame(c)

SpecChat == ChatInit /\ [][NextChat]_vars

\* The countdown: the clock, the interval callbacks, notifications, leaving, unmounting
NextTimer ==
  \/ AdvanceClock
  \/ \E c \in Clients, h \in 1..2, d \in Clients \cup {0}, w \in WordPool \cup {NoWord} :
       Tick(c, h, w, d)
  \/ \E c \in Clients, d \in Clients \cup {0}, w \in WordPool \cup {NoWord} :
       Deliver(c, w, d)
  \/ \E c \in Clients : Leave(c)
  \/ \E c \in Clients : Unmount(c)
  \/ \E c \in Clients : ShowGame(c)

SpecTimer == GameInit /\ [][NextTimer]_vars

\* The countdown of a game in which the round-end write may fail
NextRetry ==
  \/ AdvanceClock
  \/ \E c \in Clients, h \in 1..2, d \in Clients \cup {0}, w \in WordPool \cup {NoWord} :
       Tick(c, h, w, d)
  \/ \E c \in Clients, h \in 1..2 : TickFails(c, h)
  \/ \E c \in Clients, d \in Clients \cup {0}, w \in WordPool \cup {NoWord} :
       Deliver(c, w, d)
  \/ \E c \in Clients : ShowGame(c)

SpecRetry == GameInit /\ [][NextRetry]_vars

\* The rounds: the clock, the interval callbacks, chat and notifications
NextRound ==
  \/ AdvanceClock
  \/ \E c \in Clients, h \in 1..2, d \in Clients \cup {0}, w \in WordPool \cup {NoWord} :
       Tick(c, h, w, d)
  \/ \E c \in Clients, x \in ChatInputs : SendChat(c, x)
  \/ \E c \in Clients, d \in Clients \cup {0}, w \in WordPool \cup {NoWord} :
       Deliver(c, w, d)
  \/ \E c \in Clients : ShowGame(c)

SpecRound == GameInit /\ [][NextRound]_vars

\* The game: the interval callbacks, tag-team, chat, notifications and leaving
NextGame ==
  \/ \E c \in Clients, h \in 1..2, d \in Clients \cup {0}, w \in WordPool \cup {NoWord} :
       Tick(c, h, w, d)
  \/ \E c \in Clients, t \in Clients : TagTeam(c, t)
  \/ \E c \in Clients, x \in ChatInputs : SendChat(c, x)
  \/ \E c \in Clients, d \in Clients \cup {0}, w \in WordPool \cup {NoWord} :
       Deliver(c, w, d)
  \/ \E c \in Clients : Leave(c)
  \/ \E c \in Clients : ShowGame(c)

SpecGame == GameInit /\ [][NextGame]_vars

\* Drawing: the touches and tools of the drawer's canvas during one round of a game,
\* and of the canvas of a local game on a device that left the multiplayer app
LocalInit ==
  /\ now = 0
  /\ srvRoom = NoRoom
  /\ srvPlayers = NoPlayers
  /\ room = [c \in Clients |-> NoRoom]
  /\ players = [c \in Clients |-> NoPlayers]
  /\ inbox = [c \in Clients |-> <<>>]
  /\ messages = [c \in Clients |-> <<>>]
  /\ error = [c \in Clients |-> "none"]
  /\ screen = [c \in Clients |-> "home"]
  /\ timeRemaining = [c \in Clients |-> InitialTimeRemaining]
  /\ timerRef = [c \in Clients |-> 0]
  /\ intervals = [c \in Clients |-> {}]
  /\ mounted = [c \in Clients |-> c # Creator]
  /\ startPending = [c \in Clients |-> FALSE]
  /\ sent = 0
  /\ hist = NoHist
  /\ canvas = [c \in Clients |-> NoCanvas]
  /\ drawings = NoDrawings
  /\ localGame = [c \in Clients |->
                    IF c = Creator THEN [NoLocalGame EXCEPT !.gameState = "drawing"]
                    ELSE NoLocalGame]
  /\ configured = [c \in Clients |-> TRUE]

DrawInit ==
  \/ \E w \in WordPool :
       GameStart([p \in Clients |-> IF p = Creator THEN 1 ELSE 2], FALSE, w, Creator,
                 TimerSeconds, 0, 0)
  \/ LocalInit

NextDraw ==
  \/ \E c \in Clients, pt \in TouchPoints : TouchStart(c, pt)
  \/ \E c \in Clients, pt \in TouchPoints : TouchMove(c, pt)
  \/ \E c \in Clients : TouchEnd(c)
  \/ \E c \in Clients : TouchCancel(c)
  \/ \E c \in Clients, color \in PickColors : PickColor(c, color)
  \/ \E c \in Clients, size \in PickSizes : PickBrush(c, size)
  \/ \E c \in Clients : Clear(c)
  \/ \E c \in Clients : Undo(c)
  \/ \E c \in Clients, pt \in LocalTouchPoints : LocalTouchStart(c, pt)
  \/ \E c \in Clients, pt \in LocalTouchPoints : LocalTouchMove(c, pt)
  \/ \E c \in Clients : LocalTouchEnd(c)
  \/ \E c \in Clients : LocalTouchCancel(c)
  \/ \E c \in Clients, color \in PickColors : LocalPickColor(c, color)
  \/ \E c \in Clients : ClearCanvas(c)
  \/ \E c \in Clients : UndoLast(c)

SpecDraw == DrawInit /\ [][NextDraw]_vars

\* The local game: a device that left the multiplayer app plays rounds of the local
\* game, changes its settings between rounds, and leaves and opens it again
LocalMenuInit ==
  /\ now = 0
  /\ srvRoom = NoRoom
  /\ srvPlayers = NoPlayers
  /\ room = [c \in Clients |-> NoRoom]
  /\ players = [c \in Clients |-> NoPlayers]
  /\ inbox = [c \in Clients |-> <<>>]
  /\ messages = [c \in Clients |-> <<>>]
  /\ error = [c \in Clients |-> "none"]
  /\ screen = [c \in Clients |-> "home"]
  /\ timeRemaining = [c \in Clients |-> InitialTimeRemaining]
  /\ timerRef = [c \in Clients |-> 0]
  /\ intervals = [c \in Clients |-> {}]
  /\ mounted = [c \in Clients |-> c # Creator]
  /\ startPending = [c \in Clients |-> FALSE]
  /\ sent = 0
  /\ hist = NoHist
  /\ canvas = [c \in Clients |-> NoCanvas]
  /\ drawings = NoDrawings
  /\ localGame = [c \in Clients |->
                    IF c = Creator THEN [NoLocalGame EXCEPT !.gameState = "menu"]
                    ELSE NoLocalGame]
  /\ configured = [c \in Clients |-> TRUE]

NextLocal ==
  \/ \E c \in Clients : LocalOpen(c)
  \/ \E c \in Clients : LocalBack(c)
  \/ \E c \in Clients, word \in WordPool : StartRound(c, word)
  \/ \E c \in Clients, h \in 1..4 : WordTimeout(c, h)
  \/ \E c \in Clients, h \in 1..4 : LocalTick(c, h)
  \/ \E c \in Clients : GuessCorrect(c)
  \/ \E c \in Clients : Skip(c)
  \/ \E c \in Clients : ResetGame(c)
  \/ \E c \in Clients : OpenSettings(c)
  \/ \E c \in Clients : CloseSettings(c)
  \/ \E c \in Clients, time \in LocalTimeOptions : SetTimeLimit(c, time)
  \/ \E c \in Clients, count \in TeamCounts : SetTeamCount(c, count)

SpecLocal == LocalMenuInit /\ [][NextLocal]_vars

\* Drawing while the drawer changes: a game with tag-team allowed, the creator
\* drawing for team 1 with a teammate, the last device on team 2; the touches, undo
\* and clear of every device, handoffs, the countdown and the notifications
RoleInit ==
  GameStart([p \in Clients |-> IF p = NumClients THEN 2 ELSE 1], TRUE,
            CHOOSE w \in WordPool : TRUE, Creator, TimerSeconds, 0, 0)

\* the strokes, open or completed, that the screens of the room hold
RECURSIVE StrokesHeld(_)
StrokesHeld(S) ==
  IF S = {} THEN 0
  ELSE LET c == CHOOSE d \in S : TRUE
       IN Len(canvas[c].localPaths) + (IF canvas[c].currentPath = NoPath THEN 0 ELSE 1)
          + StrokesHeld(S \ {c})

\* model bound: a stroke is begun while the screens hold fewer than MaxStrokes, at
\* one place, and has at most MaxRolePoints points
RolePoint == CHOOSE pt \in TouchPoints : TRUE

NextRole ==
  \/ \E c \in Clients : StrokesHeld(Clients) < MaxStrokes /\ TouchStart(c, RolePoint)
  \/ \E c \in Clients, pt \in TouchPoints :
       Len(canvas[c].gesture.touched) < MaxRolePoints /\ TouchMove(c, pt)
  \/ \E c \in Clients : TouchEnd(c)
  \/ \E c \in Clients : Clear(c)
  \/ \E c \in Clients : Undo(c)
  \/ \E c \in Clients, t \in Clients : TagTeam(c, t)
  \/ \E c \in Clients, d \in Clients \cup {0}, w \in WordPool \cup {NoWord} :
       Deliver(c, w, d)
  \/ \E c \in Clients : ShowGame(c)

SpecRole == RoleInit /\ [][NextRole]_vars

\* Drawing across rounds: a game without tag-team, the creator drawing for team 1,
\* the other devices on team 2; the touches, undo and clear of every device, the
\* countdown with its round-end, and the notifications
NewRoundInit ==
  GameStart([p \in Clients |-> IF p = Creator THEN 1 ELSE 2], FALSE,
            CHOOSE w \in WordPool : TRUE, Creator, TimerSeconds, 0, 0)

NextNewRound ==
  \/ \E c \in Clients : StrokesHeld(Clients) < MaxStrokes /\ TouchStart(c, RolePoint)
  \/ \E c \in Clients, pt \in TouchPoints :
       Len(canvas[c].gesture.touched) < MaxRolePoints /\ TouchMove(c, pt)
  \/ \E c \in Clients : TouchEnd(c)
  \/ \E c \in Clients : Clear(c)
  \/ \E c \in Clients : Undo(c)
  \/ \E c \in Clients, h \in 1..2, d \in Clients \cup {0}, w \in WordPool \cup {NoWord} :
       Tick(c, h, w, d)
  \/ \E c \in Clients, d \in Clients \cup {0}, w \in WordPool \cup {NoWord} :
       Deliver(c, w, d)
  \/ \E c \in Clients : ShowGame(c)

SpecNewRound == NewRoundInit /\ [][NextNewRound]_vars

(***************************************************************************)
(* Properties                                                              *)
(***************************************************************************)
\* the start-game precondition, as client c sees the room
StartAllowed(c) ==
  /\ room[c].exists
  /\ room[c].status = "waiting"
  /\ \E p, q \in Clients : p # q /\ players[c][p].present /\ players[c][q].present
  /\ ~\E p \in Clients : players[c][p].present /\ ~players[c][p].is_ready
  /\ \E p \in Clients : players[c][p].present /\ players[c][p].team = 1
  /\ \E p \in Clients : players[c][p].present /\ players[c][p].team = 2

\* client c presses the start button / its start-game attempt runs
StartPressed(c) == ~startPending[c] /\ startPending'[c]
StartAttempted(c) == startPending[c] /\ ~startPending'[c]

TimerEnds(c) == hist'.timerEnds = hist.timerEnds + 1 /\ hist'.timerBy = c

\* C2: when a client's countdown reaches zero in a playing room, the round-end is
\* submitted by that client only if it is the host; the countdown of a client that
\* is not the host changes nothing in the backend, in every interleaving of the ticks.
C2_OnlyHostEndsOnTimer ==
  [][ /\ \A c \in Clients :
           TimerEnds(c) =>
             /\ players[c][c].present /\ players[c][c].is_host
             /\ srvPlayers[c].present /\ srvPlayers[c].is_host
             /\ timeRemaining[c] <= 1
             /\ room[c].status = "playing"
      /\ (srvRoom' # srvRoom) => \E c \in Clients : TimerEnds(c)
      /\ (~hist.expired /\ hist'.expired) =>
           /\ srvRoom' = srvRoom /\ srvPlayers' = srvPlayers /\ inbox' = inbox
           /\ \E c \in Clients :
                /\ ~(players[c][c].present /\ players[c][c].is_host)
                /\ timeRemaining[c] <= 1
                /\ timeRemaining'[c] = room[c].timer_seconds
    ]_vars

\* the host's countdown ended the round, the countdown of another client reached zero
\* too, and that client observed the new round
C2_HostEnded ==
  /\ hist.timerEnds = 1 /\ hist.timerBy = Creator
  /\ hist.expired
  /\ srvRoom.current_round = 1
  /\ \E c \in Clients \ {Creator} : room[c].current_round = 1 /\ intervals[c] # {}

\* C3: the remaining time computed when the timer effect runs, e whole seconds after
\* round_start_time in a room with timer_seconds D, is max(0, D - e): 15 for D = 60,
\* e = 45, and 0 for D = 60, e = 70; never negative; D when round_start_time is absent.
C3_RemainingClamped ==
  \A c \in Clients \ {Creator} :
    (intervals[c] # {}) =>
      LET D == room[c].timer_seconds
          T0 == room[c].round_start_time
      IN /\ timeRemaining[c] >= 0
         /\ T0 = -1 => timeRemaining[c] = D
         /\ T0 # -1 =>
              \E e \in 0..(MaxElapsed + 1) :
                /\ now = T0 + 1000 * e
                /\ e <= D => timeRemaining[c] + e = D
                /\ e > D => timeRemaining[c] = 0
                /\ (D = 60 /\ e = 45) => timeRemaining[c] = 15
                /\ (D = 60 /\ e = 70) => timeRemaining[c] = 0

\* the effect ran 70 seconds into a 60-second round and computed 0
C3_Clamped ==
  \E c \in Clients \ {Creator} :
    /\ intervals[c] # {}
    /\ room[c].timer_seconds = 60
    /\ room[c].round_start_time = 7000
    /\ now = 77000
    /\ timeRemaining[c] = 0

\* at most one interval of client c is scheduled, the one timerRef holds, and none
\* unless c is mounted in a playing room
OneTimer(c) ==
  /\ Cardinality(intervals[c]) <= 1
  /\ intervals[c] \subseteq {timerRef[c]}
  /\ (intervals[c] # {}) => mounted[c] /\ room[c].exists /\ room[c].status = "playing"

\* C4: after any sequence of notifications, leave actions and unmounts, at most one
\* countdown interval is active per client, and none is active, and none submits a
\* round-end, once the room is not playing, has been left, or the component is
\* unmounted.
C4_SingleTimer ==
  [][ /\ \A c \in Clients : OneTimer(c) /\ OneTimer(c)'
      /\ \A c \in Clients :
           (timeRemaining'[c] # timeRemaining[c] /\ room'[c] = room[c] /\ mounted'[c]) =>
             mounted[c] /\ room[c].exists /\ room[c].status = "playing"
      /\ \A c \in Clients :
           TimerEnds(c) => mounted[c] /\ room[c].exists /\ room[c].status = "playing"
    ]_vars

\* a client left the lobby after its countdown had started, and no interval of it
\* is left; another left and unmounted; the host, whose countdown ended the first
\* round, runs the one interval of the new round
C4_StoppedAndRestarted ==
  /\ hist.timerEnds = 1
  /\ room[Creator].current_round = 1
  /\ Cardinality(intervals[Creator]) = 1
  /\ \E c, d \in Clients \ {Creator} :
       /\ c # d
       /\ ~mounted[c] /\ intervals[c] = {}
       /\ mounted[d] /\ ~room[d].exists /\ screen[d] = "home"
       /\ timeRemaining[d] <= TimerSeconds
       /\ intervals[d] = {} /\ timerRef[d] = 0

\* a round-end is submitted in this step, by a countdown or on a correct guess
RoundEnds ==
  \/ hist'.timerEnds = hist.timerEnds + 1
  \/ hist'.awards = hist.awards + 1

\* the point player p receives in this step for the correct guess that ends the round
PointFor(p) == IF hist'.awards = hist.awards + 1 /\ hist'.guesser = p THEN 1 ELSE 0

Receives(c) == Len(messages'[c]) = Len(messages[c]) + 1

\* the message client c receives in this step
Received(c) == messages'[c][Len(messages'[c])]

\* client c holds player p as a member of the team that is not drawing
OnGuessingTeam(c, p) ==
  /\ players[c][p].present
  /\ players[c][p].team \in {1, 2}
  /\ players[c][p].team # room[c].drawing_team

\* the text between the first and the last character of s that is not a space
Core(s) ==
  LET ns == {i \in 1..Len(s) : s[i] # " "}
  IN IF ns = {} THEN <<>>
     ELSE SubSeq(s, CHOOSE i \in ns : \A j \in ns : i <= j,
                    CHOOSE i \in ns : \A j \in ns : i >= j)

\* the capital letters of the texts of the model, each with its small letter
Capitals ==
  { <<"A", "a">>, <<"C", "c">>, <<"E", "e">>, <<"H", "h">>, <<"L", "l">>, <<"N", "n">>,
    <<"P", "p">>, <<"S", "s">>, <<"T", "t">>, <<"U", "u">> }

\* a and b are the same letter, case apart
SameLetter(a, b) ==
  \/ a = b
  \/ <<a, b>> \in Capitals
  \/ <<b, a>> \in Capitals

\* the trimmed texts a and b are equal, case apart
SameFolded(a, b) ==
  /\ Len(Core(a)) = Len(Core(b))
  /\ \A i \in 1..Len(Core(a)) : SameLetter(Core(a)[i], Core(b)[i])

\* C7: a message (of a member of the guessing team, in a playing room) is marked
\* is_correct_guess exactly when its trimmed, case-folded text equals the trimmed,
\* case-folded word the receiver holds: for the word "Elephant", " elephant " is
\* correct and "elephants" is not; what is sent is the trimmed input, and an empty or
\* whitespace-only input is never sent.
C7_CorrectGuessMatch ==
  [][ /\ \A c \in Clients :
           Receives(c) =>
             LET m == Received(c)
                 word == room[c].current_word
             IN /\ m.is_correct_guess => SameFolded(m.text, word)
                /\ (OnGuessingTeam(c, m.player_id) /\ room[c].status = "playing") =>
                     (m.is_correct_guess <=> SameFolded(m.text, word))
                /\ (word = <<"E", "l", "e", "p", "h", "a", "n", "t">>
                      /\ OnGuessingTeam(c, m.player_id)) =>
                     /\ m.text = <<"e", "l", "e", "p", "h", "a", "n", "t">>
                          => m.is_correct_guess
                     /\ m.text = <<"e", "l", "e", "p", "h", "a", "n", "t", "s">>
                          => ~m.is_correct_guess
                /\ m.text # <<>> /\ m.text[1] # " " /\ m.text[Len(m.text)] # " "
      /\ \A d \in Clients :
           Len(inbox'[d]) > Len(inbox[d]) =>
             LET item == inbox'[d][Len(inbox'[d])]
             IN item.kind = "chat" =>
                  /\ item.text # <<>>
                  /\ item.text[1] # " " /\ item.text[Len(item.text)] # " "
                  /\ \E x \in ChatTexts : item.text = Core(x)
    ]_vars

\* " elephant " was typed with the word "Elephant", sent as "elephant", and marked
\* correct by the host, who scored it
C7_ElephantCorrect ==
  /\ hist.awards = 1
  /\ Len(messages[Creator]) = 1
  /\ messages[Creator][1].text = <<"e", "l", "e", "p", "h", "a", "n", "t">>
  /\ messages[Creator][1].is_correct_guess

\* a correct guess is scored in this step
GuessScored == hist'.awards = hist.awards + 1

C8_OnlyGuessingTeam ==
  [][ /\ \A c \in Clients :
           (Receives(c) /\ ~OnGuessingTeam(c, Received(c).player_id)) =>
             /\ ~Received(c).is_correct_guess
             /\ \A p \in Clients : srvPlayers'[p].score = srvPlayers[p].score
             /\ srvRoom' = srvRoom
      /\ \A c \in Clients :
           (Receives(c) /\ Received(c).is_correct_guess) =>
             OnGuessingTeam(c, Received(c).player_id)
      /\ (sent' # sent) =>
           \E c \in Clients :
             /\ OnGuessingTeam(c, c)
             /\ screen[c] = "game"
             /\ \A d \in Clients :
                  Len(inbox'[d]) > Len(inbox[d]) =>
                    inbox'[d][Len(inbox'[d])].from = c
    ]_vars

\* a client holds a message whose text equals the word and whose sender is on the
\* drawing team: not marked correct, no point scored
C8_DrawingTeamIgnored ==
  \E c \in Clients :
    /\ Len(messages[c]) = 1
    /\ toLowerCase(messages[c][1].text) = toLowerCase(room[c].current_word)
    /\ players[c][messages[c][1].player_id].team = room[c].drawing_team
    /\ ~messages[c][1].is_correct_guess
    /\ players[c][c].is_host
    /\ hist.awards = 0
    /\ \A p \in Clients : srvPlayers[p].score = 0
Handoff ==
  /\ srvRoom' = srvRoom
  /\ \A p \in Clients : srvPlayers'[p].present = srvPlayers[p].present
  /\ \E p \in Clients : srvPlayers'[p].is_drawing # srvPlayers[p].is_drawing

DrawingRows == {p \in Clients : srvPlayers[p].present /\ srvPlayers[p].is_drawing}

\* C11: in every state of the room at most one player has is_drawing = true, and
\* while the room is playing that player is a member of drawing_team, whatever the
\* order of start-game, round-end, tag-team handoff and leaving
C11_OneDrawerOfDrawingTeam ==
  /\ Cardinality(DrawingRows) <= 1
  /\ srvRoom.status = "playing" =>
       \A p \in DrawingRows : srvPlayers[p].team = srvRoom.drawing_team

(***************************************************************************)
(* The host                                                                *)
(***************************************************************************)
\* the players rows of the room that have is_host = true
HostRows == {p \in Clients : srvPlayers[p].present /\ srvPlayers[p].is_host}

Lifted(c) == canvas[c].touching /\ ~canvas'[c].touching /\ canvas'[c].op = "end"

\* the events of a gesture that touched the places ts: their types and coordinates
GestureShape(ts) ==
  [i \in 1..(Len(ts) + 1) |->
     IF i = Len(ts) + 1 THEN <<"end", NoCoord, NoCoord>>
     ELSE <<IF i = 1 THEN "start" ELSE "move", ts[i][1], ts[i][2]>>]

\* C13: when the drawer lifts the finger from a stroke that is open, the stroke added
\* to the local paths has exactly the places touched since the finger came down, in
\* order, with the color and brush size selected then, and the events emitted for the
\* gesture are a start, one move per further place and an end, with the same
\* coordinates in the same order
C13_StrokeIsGesture ==
  [][\A c \in Clients :
       Lifted(c) /\ isDrawing(c) /\ canvas[c].currentPath # NoPath =>
         LET g == canvas[c].gesture
             stroke == canvas'[c].localPaths[Len(canvas'[c].localPaths)]
             events == canvas'[c].gesture.events
         IN /\ canvas'[c].localPaths # <<>>
            /\ canvas'[c].localPaths = Append(canvas[c].localPaths, stroke)
            /\ stroke.points = g.touched
            /\ stroke.color = g.color
            /\ stroke.brushSize = g.brushSize
            /\ canvas'[c].currentPath = NoPath
            /\ events = GestureShape(g.touched)]_vars

\* a stroke of three places, drawn in the second color with the 12 pixel brush, is the
\* last local path and its gesture has just ended
C13_ThreePointStroke ==
  \E c \in Clients :
    /\ canvas[c].op = "end"
    /\ canvas[c].emitted # <<>>
    /\ canvas[c].localPaths # <<>>
    /\ LET stroke == canvas[c].localPaths[Len(canvas[c].localPaths)]
       IN /\ stroke.points = <<<<3, 1>>, <<1, 2>>, <<3, 1>>>>
          /\ stroke.color = COLORS[2]
          /\ stroke.brushSize = BRUSH_SIZES[3]
    /\ Len(canvas[c].gesture.events) = 4

\* the step is a run of the handler op on the game screen, or in the local game, of c
Ran(c, op) == canvas'[c].op = op /\ canvas'[c] # canvas[c]
LocalRan(c, op) == localGame'[c].op = op /\ localGame'[c] # localGame[c]

\* a list without its last element
AllButLast(s) == IF s = <<>> THEN <<>> ELSE [i \in 1..(Len(s) - 1) |-> s[i]]

\* C14: undo removes the most recently completed stroke and leaves the earlier ones
\* and their order as they were, with no completed stroke it changes nothing, and the
\* stroke in progress is not touched; for localPaths of the game screen and for paths
\* of the local game
C14_UndoRemovesLast ==
  [][\A c \in Clients :
       /\ Ran(c, "undo") =>
            /\ canvas'[c].localPaths = AllButLast(canvas[c].localPaths)
            /\ canvas'[c].currentPath = canvas[c].currentPath
       /\ LocalRan(c, "undo") =>
            /\ localGame'[c].paths = AllButLast(localGame[c].paths)
            /\ localGame'[c].currentPath = localGame[c].currentPath]_vars

\* the drawer has undone the second of two strokes: the first, of three places, is left
C14_SecondUndone ==
  \E c \in Clients :
    /\ canvas[c].op = "undo"
    /\ Len(canvas[c].localPaths) = MaxStrokes - 1
    /\ Len(canvas[c].localPaths[1].points) = 3
    /\ canvas[c].emitted # <<>>
    /\ canvas[c].emitted[1].type = "undo"

\* C15: clear leaves no completed stroke and no stroke in progress, whatever the
\* canvas held, and a clear that follows a clear changes nothing; for the game screen
\* and for the local game
C15_ClearEmpties ==
  [][\A c \in Clients :
       /\ Ran(c, "clear") =>
            /\ canvas'[c].localPaths = <<>>
            /\ canvas'[c].currentPath = NoPath
            /\ canvas[c].op # "clear"
       /\ LocalRan(c, "clear") =>
            /\ localGame'[c].paths = <<>>
            /\ localGame'[c].currentPath = <<>>
            /\ localGame[c].op # "clear"]_vars

\* the canvas was cleared while a finger was drawing a stroke on it
C15_OpenStrokeCleared ==
  \E c \in Clients :
    /\ canvas[c].op = "clear"
    /\ canvas[c].touching
    /\ canvas[c].gesture.touched # <<>>
    /\ canvas[c].localPaths = <<>>
    /\ canvas[c].currentPath = NoPath

\* C16: a touch move or a lifted finger on a screen that has no stroke in progress
\* adds no point, creates no stroke, leaves the completed strokes as they were and
\* emits no event
C16_NoOpenStrokeIgnored ==
  [][\A c \in Clients :
       (Ran(c, "move") \/ Ran(c, "end")) /\ canvas[c].currentPath = NoPath =>
         /\ canvas'[c].localPaths = canvas[c].localPaths
         /\ canvas'[c].currentPath = NoPath
         /\ canvas'[c].emitted = <<>>
         /\ canvas'[c].gesture.events = canvas[c].gesture.events]_vars

\* the finger moved on a canvas whose stroke had been cleared: the move was ignored
C16_MoveIgnored ==
  \E c \in Clients :
    /\ canvas[c].op = "move"
    /\ canvas[c].touching
    /\ canvas[c].currentPath = NoPath
    /\ canvas[c].emitted = <<>>
    /\ Len(canvas[c].gesture.touched) = 2
    /\ Len(canvas[c].gesture.events) = 1


\* C17: on a device without backend credentials handleCreateRoom returns null and
\* handleJoinRoom returns false, createRoom and joinRoom are not called (the rows of
\* the backend and every inbox stay as they were), and the device's room, its player
\* list, its screen and its error slot are unchanged; such a device never has a room.
C17_UnconfiguredRefused ==
  [][\A c \in Clients : ~configured[c] =>
       /\ ~room'[c].exists /\ ~srvPlayers'[c].present
       /\ hist'.ret[c] \notin {"code", "true"}
       /\ (hist'.ret[c] # hist.ret[c] /\ hist'.ret[c] # "none") =>
            /\ hist'.ret[c] = IF screen[c] = "create" THEN "null" ELSE "false"
            /\ UNCHANGED <<srvRoom, srvPlayers, inbox, room, players, screen, error>>]_vars

\* a device without credentials was refused on the join screen while the room was
\* waiting for players: it is still on the join screen, with no room and no error
C17_JoinRefused ==
  \E c \in Clients :
    /\ ~configured[c] /\ screen[c] = "join" /\ hist.ret[c] = "false"
    /\ srvRoom.exists /\ srvRoom.status = "waiting" /\ error[c] = "none"
    /\ ~room[c].exists /\ ~srvPlayers[c].present


\* the values of the error slot that report a failed action
Failures == {"NotFound", "PreconditionFailed", "TransportError"}

Left(c) == InLobby(c) /\ screen'[c] = "home"

\* C19: a client that leaves ends on the home screen with no room and no players in
\* its store, and its row is removed; when it was the only player left, the backend
\* holds no player row of the room after the step.
C19_LastPlayerLeaves ==
  [][\A c \in Clients : Left(c) =>
       /\ ~srvPlayers'[c].present
       /\ \A p \in Clients \ {c} : srvPlayers'[p] = srvPlayers[p]
       /\ room'[c] = NoRoom /\ players'[c] = NoPlayers /\ inbox'[c] = <<>>
       /\ ({p \in Clients : srvPlayers[p].present} = {c}) => srvPlayers' = NoPlayers]_vars

\* the last player of the room has left: the room row is still there, no player row
\* is, and every device is on the home screen without a room
C19_EveryoneLeft ==
  /\ srvRoom.exists
  /\ srvPlayers = NoPlayers
  /\ \A c \in Clients : screen[c] = "home" /\ room[c] = NoRoom /\ players[c] = NoPlayers
  /\ \A c \in Clients \ {Creator} : hist.ret[c] = "none" /\ error[c] = "none"


C23_GameScreenOnlyPlaying ==
  \A c \in Clients : (mounted[c] /\ screen[c] = "game") => room[c].status = "playing"


\* the rows of the players that have no team
NoTeamRows == {p \in Clients : srvPlayers[p].present /\ srvPlayers[p].team = 0}

\* C30: a player with is_ready = true has team 1 or 2, in the backend and in every
\* store; when the room is playing, every player of the room has team 1 or 2.
C30_TeamsWhenPlaying ==
  /\ \A p \in Clients : (srvPlayers[p].present /\ srvPlayers[p].is_ready) =>
       srvPlayers[p].team \in {1, 2}
  /\ \A c \in Clients, p \in Clients : (players[c][p].present /\ players[c][p].is_ready) =>
       players[c][p].team \in {1, 2}
  /\ srvRoom.status = "playing" => NoTeamRows = {}


\* C24: for one round (the current_round and round_start_time of the host's
\* snapshot) the host's countdown calls endRound at most once: a call is never made
\* by the caller, and in the round, of the call before it.
C24_EndRoundOncePerRound ==
  [][hist'.endCalls = hist.endCalls + 1 => hist'.calledAt # hist.calledAt]_vars


\* C22: a handler that runs on a client whose currentPlayer.is_drawing is false hands
\* no event to onSendDrawing and leaves the client's completed strokes and its
\* current path as they were; a receiver's strokes do not change.
C22_OnlyDrawerDraws ==
  [][\A c \in Clients : (~isDrawing(c) /\ canvas'[c] # canvas[c]) =>
       /\ canvas'[c].emitted = <<>>
       /\ canvas'[c].localPaths = canvas[c].localPaths
       /\ canvas'[c].currentPath = canvas[c].currentPath
       /\ drawings' = drawings]_vars

\* a client lost the drawing duty with a finger on the canvas; the moves and the lift
\* of that finger were ignored: no stroke was added and the receiver's buffer for the
\* client is still open
C22_LiftIgnored ==
  \E c \in Clients :
    /\ InGame(c) /\ ~isDrawing(c)
    /\ canvas[c].op = "end" /\ ~canvas[c].touching
    /\ canvas[c].currentPath # NoPath
    /\ canvas[c].localPaths = <<>>
    /\ drawings.open[c] # NoPath

\* C25: a client whose currentPlayer.is_drawing is false holds no open stroke, and
\* no receiver holds a stroke of that client that was started and not ended.
C25_NoOpenStrokeOffDuty ==
  \A c \in Clients : (InGame(c) /\ ~isDrawing(c)) =>
    canvas[c].currentPath = NoPath /\ drawings.open[c] = NoPath

\* C26: when the round of a client's room snapshot changes while it shows the game
\* screen, the client holds no completed stroke and no current path.
C26_NewRoundEmptyCanvas ==
  [][\A c \in Clients :
       (InGame(c) /\ InGame(c)' /\ room'[c].current_round # room[c].current_round) =>
         canvas'[c].localPaths = <<>> /\ canvas'[c].currentPath = NoPath]_vars

\* a stroke without its id
Plain(st) == [points |-> st.points, color |-> st.color, brushSize |-> st.brushSize]

PlainAll(sts) == [i \in 1..Len(sts) |-> Plain(sts[i])]

\* the closed strokes of sender c that a receiver holds
ClosedOf(c) == SelectSeq(drawings.closed, LAMBDA st : st.id = c)

\* C27: the completed strokes a client holds locally are those of its own strokes
\* that a receiver of the room's ordered event stream still holds.
C27_LocalPathsAsReceived ==
  \A c \in Clients : InGame(c) => PlainAll(canvas[c].localPaths) = PlainAll(ClosedOf(c))



(***************************************************************************)
(* The local game: timers, turns and scores                                *)
(***************************************************************************)
\* a handler or timer callback of LocalGameApp ran on device c in this step
LocalStep(c, op) == localGame'[c] # localGame[c] /\ localGame'[c].op = op

\* no countdown interval and no word timeout is pending outside the drawing state
LocalTimersOnlyDrawing ==
  \A c \in Clients : localGame[c].gameState # "drawing" =>
    localGame[c].intervals = {} /\ localGame[c].timeouts = {}

\* outside the drawing state no timer callback runs, timeLeft changes only when the
\* next round starts (or the component is mounted anew), and reveal is not entered
LocalQuietOutsideDrawing ==
  \A c \in Clients : localGame[c].gameState # "drawing" =>
    /\ ~LocalStep(c, "tick") /\ ~LocalStep(c, "wordTimeout")
    /\ localGame'[c].timeLeft # localGame[c].timeLeft =>
         (LocalStep(c, "startRound") \/ LocalStep(c, "open") \/ LocalStep(c, "back"))
    /\ localGame'[c].gameState = "reveal" => localGame[c].gameState = "reveal"

\* the tick at timeLeft <= 1 sets timeLeft to 0 and moves to reveal; an earlier tick
\* takes one second off
LocalLastTick ==
  \A c \in Clients : LocalStep(c, "tick") =>
    IF localGame[c].timeLeft <= 1
    THEN localGame'[c].timeLeft = 0 /\ localGame'[c].gameState = "reveal"
    ELSE /\ localGame'[c].timeLeft = localGame[c].timeLeft - 1
         /\ localGame'[c].gameState = localGame[c].gameState

TimeLeftInRange(c) ==
  localGame[c].timeLeft \in 0..localGame[c].settings.timeLimit

\* C21 as stated: in the local game a timer is pending only while gameState is
\* drawing, after the round left drawing no timer fires, timeLeft does not change and
\* reveal is not entered, the last tick sets timeLeft to 0 and moves to reveal, and
\* timeLeft is within 0..settings.timeLimit in every state of the game
C21_TimeLeftAlwaysInRange ==
  /\ [](LocalTimersOnlyDrawing /\ \A c \in Clients : TimeLeftInRange(c))
  /\ [][LocalQuietOutsideDrawing /\ LocalLastTick]_vars

\* C21 amended: the same, with timeLeft within 0..settings.timeLimit while a round
\* is drawn or revealed (in the menu and the settings timeLeft keeps the value of the
\* last round, which a time limit lowered in the settings may be below)
C21_LocalTimers ==
  /\ [](LocalTimersOnlyDrawing
        /\ \A c \in Clients :
             localGame[c].gameState \in {"drawing", "reveal"} => TimeLeftInRange(c))
  /\ [][LocalQuietOutsideDrawing /\ LocalLastTick]_vars

\* the countdown of a round with the time limit lowered to 30 ran out: the last tick
\* moved to reveal with timeLeft 0, and no timer is left
C21_RanOut ==
  \E c \in Clients :
    /\ localGame[c].gameState = "reveal" /\ localGame[c].op = "tick"
    /\ localGame[c].timeLeft = 0
    /\ localGame[c].settings.timeLimit < InitialTimeLeft
    /\ localGame[c].intervals = {} /\ localGame[c].timeouts = {}
    /\ localGame[c].timerRef = 0 /\ localGame[c].wordTimerRef = 0



\* C28 as stated: in the local game the turn is one of the teams, 0 <= currentTeam <
\* settings.teamCount, and scores has exactly settings.teamCount entries, each a
\* non-negative integer
C28_TurnAndScoresInRange ==
  \A c \in Clients : LocalMounted(c) =>
    /\ localGame[c].currentTeam \in 0..(localGame[c].settings.teamCount - 1)
    /\ Len(localGame[c].scores) = localGame[c].settings.teamCount
    /\ \A k \in 1..Len(localGame[c].scores) :
         localGame[c].scores[k].kind = "number" /\ localGame[c].scores[k].n >= 0

\* the round is over: the turn passes to the next team, the round number grows by
\* one and the menu is shown
RoundOver(c) ==
  /\ localGame'[c].currentTeam =
       (localGame[c].currentTeam + 1) % localGame[c].settings.teamCount
  /\ localGame'[c].roundNumber = localGame[c].roundNumber + 1
  /\ localGame'[c].gameState = "menu"

\* C29 as stated: handleGuessCorrect adds exactly 1 to the score of the current team
\* and leaves the other scores alone, handleSkip changes no score, both pass the turn
\* to (currentTeam + 1) mod teamCount, add 1 to roundNumber and return to the menu;
\* the round number grows in no other step, so a round ends once and awards at most
\* one point
C29_OnePointPerRound ==
  [][\A c \in Clients :
       /\ LocalStep(c, "guessCorrect") =>
            /\ localGame[c].currentTeam + 1 \in 1..Len(localGame[c].scores)
            /\ localGame[c].scores[localGame[c].currentTeam + 1].kind = "number"
            /\ localGame'[c].scores =
                 [localGame[c].scores EXCEPT ![localGame[c].currentTeam + 1] =
                    Num(@.n + 1)]
            /\ RoundOver(c)
       /\ LocalStep(c, "skip") =>
            localGame'[c].scores = localGame[c].scores /\ RoundOver(c)
       /\ localGame'[c].roundNumber > localGame[c].roundNumber =>
            (LocalStep(c, "guessCorrect") \/ LocalStep(c, "skip"))]_vars

=============================================================================
